---- MODULE Spec2Model ----
(***************************************************************************)
(* A model of the query/filtering core of the BuilderSolve agent tools:    *)
(* the text matcher (backend/tools/helpers.py), the schedule, hierarchy    *)
(* and dependency queries (backend/tools/schedule_tools.py) and the        *)
(* payment schedule aggregator (backend/tools/payment_tools.py).           *)
(*                                                                         *)
(* Python values are modelled as follows.  A str is a TLA+ string; an      *)
(* Optional value is <<>> for None and <<v>> for a value v; a list is a    *)
(* sequence; a dict with known keys is a record.  Money is held in cents   *)
(* and percentages in whole percent, so that rounding to 2 decimals is     *)
(* rounding to a whole number of cents.                                    *)
(***************************************************************************)
EXTENDS Integers, Sequences, FiniteSets, TLC

VARIABLES
    schedule,   \* job_data["schedule"]: the list of task records
    op,         \* the operation called last ("none" before the first call)
    args,       \* the argument record of that call
    result,     \* what the call returned, or the exception it raised
    pc,         \* "idle", "walking" inside query_dependencies, "returned" after a call
    visited,    \* the visited set of the dependency walk in progress
    stack,      \* the call stack of get_predecessors / get_successors
    emitted,    \* the entries collected so far: the nodes of the walk in pre-order,
                \* or all_payments of query_payment_schedule
    remote,     \* what the comparison service holds for the job (None where no
                \* comparison operation is called)
    attempts    \* the outcomes of the outbound requests of the call, in order

vars == <<schedule, op, args, result, pc, visited, stack, emitted, remote, attempts>>

(***************************************************************************)
(* Optional values                                                         *)
(***************************************************************************)
None == <<>>
Some(v) == <<v>>
IsNone(o) == o = <<>>
Val(o) == o[1]
\* Python truthiness of an Optional[str]: None and "" are falsy.
TruthyStr(o) == o # <<>> /\ o[1] # ""

Max(a, b) == IF a >= b THEN a ELSE b
Min(a, b) == IF a <= b THEN a ELSE b

RECURSIVE SumSeq(_)
SumSeq(s) == IF s = <<>> THEN 0 ELSE Head(s) + SumSeq(Tail(s))

RECURSIVE FlattenSeq(_)
FlattenSeq(ss) == IF ss = <<>> THEN <<>> ELSE Head(ss) \o FlattenSeq(Tail(ss))

(***************************************************************************)
(* Characters and strings                                                  *)
(***************************************************************************)
UpperChars == "ABCDEFGHIJKLMNOPQRSTUVWXYZ"
LowerChars == "abcdefghijklmnopqrstuvwxyz"
DigitChars == "0123456789"

CharAt(s, i) == SubSeq(s, i, i)
HasChar(set, c) == \E i \in 1..Len(set) : CharAt(set, i) = c
PosIn(set, c) == CHOOSE i \in 1..Len(set) : CharAt(set, i) = c

IsSpace(c) == c = " "
IsAlnum(c) == HasChar(LowerChars, c) \/ HasChar(DigitChars, c)

\* str(n) for a non-negative int
RECURSIVE Str(_)
Str(n) == IF n < 10 THEN CharAt(DigitChars, n + 1)
          ELSE Str(n \div 10) \o CharAt(DigitChars, (n % 10) + 1)

\* str.lower() on one character
LowerChar(c) == IF HasChar(UpperChars, c) THEN CharAt(LowerChars, PosIn(UpperChars, c)) ELSE c

RECURSIVE StrLower(_)
StrLower(s) == IF s = "" THEN "" ELSE LowerChar(Head(s)) \o StrLower(Tail(s))

\* re.sub(r'[_\-]+', ' ', s)
RECURSIVE ReplaceSeparators(_)
ReplaceSeparators(s) ==
    IF s = "" THEN ""
    ELSE IF Head(s) \in {"_", "-"}
         THEN IF Len(s) > 1 /\ CharAt(s, 2) \in {"_", "-"}
              THEN ReplaceSeparators(Tail(s))
              ELSE " " \o ReplaceSeparators(Tail(s))
         ELSE Head(s) \o ReplaceSeparators(Tail(s))

\* re.sub(r'[^a-z0-9\s]', '', s)
RECURSIVE RemoveSpecial(_)
RemoveSpecial(s) ==
    IF s = "" THEN ""
    ELSE (IF IsAlnum(Head(s)) \/ IsSpace(Head(s)) THEN Head(s) ELSE "")
         \o RemoveSpecial(Tail(s))

\* re.sub(r'\s+', ' ', s)
RECURSIVE CollapseSpaces(_)
CollapseSpaces(s) ==
    IF s = "" THEN ""
    ELSE IF IsSpace(Head(s)) /\ Len(s) > 1 /\ IsSpace(CharAt(s, 2))
         THEN CollapseSpaces(Tail(s))
         ELSE Head(s) \o CollapseSpaces(Tail(s))

\* str.strip()
RECURSIVE Strip(_)
Strip(s) ==
    IF s = "" THEN ""
    ELSE IF IsSpace(Head(s)) THEN Strip(Tail(s))
    ELSE IF IsSpace(CharAt(s, Len(s))) THEN Strip(SubSeq(s, 1, Len(s) - 1))
    ELSE s

\* a in b, for strings
Contains(b, a) == \E i \in 1..(Len(b) - Len(a) + 1) : SubSeq(b, i, i + Len(a) - 1) = a

\* str.split(): the whitespace-delimited tokens of s
RECURSIVE SplitWords(_, _)
SplitWords(s, cur) ==
    IF s = "" THEN (IF cur = "" THEN <<>> ELSE <<cur>>)
    ELSE IF IsSpace(Head(s))
         THEN (IF cur = "" THEN <<>> ELSE <<cur>>) \o SplitWords(Tail(s), "")
         ELSE SplitWords(Tail(s), cur \o Head(s))

\* s.replace(' ', '')
RECURSIVE RemoveSpaces(_)
RemoveSpaces(s) ==
    IF s = "" THEN ""
    ELSE (IF IsSpace(Head(s)) THEN "" ELSE Head(s)) \o RemoveSpaces(Tail(s))

\* ' '.join(parts)
RECURSIVE JoinSpace(_)
JoinSpace(parts) ==
    IF parts = <<>> THEN ""
    ELSE IF Len(parts) = 1 THEN parts[1]
    ELSE parts[1] \o " " \o JoinSpace(Tail(parts))

\* re.search('.*'.join(tokens), text): the tokens occur in text in order
RECURSIVE TokensInOrder(_, _)
TokensInOrder(tokens, text) ==
    IF tokens = <<>> THEN TRUE
    ELSE \E i \in 1..(Len(text) - Len(tokens[1]) + 1) :
            /\ SubSeq(text, i, i + Len(tokens[1]) - 1) = tokens[1]
            /\ TokensInOrder(Tail(tokens), SubSeq(text, i + Len(tokens[1]), Len(text)))

normalize_text(text) ==
    IF text = "" THEN ""
    ELSE Strip(CollapseSpaces(RemoveSpecial(ReplaceSeparators(StrLower(text)))))

fuzzy_match(query, text) ==
    IF query = "" \/ text = "" THEN query = ""
    ELSE LET norm_query == normalize_text(query)
             norm_text == normalize_text(text)
             query_tokens == SplitWords(norm_query, "")
         IN  \/ norm_query = ""
             \/ Contains(norm_text, norm_query)
             \/ query_tokens = <<>>
             \/ \A k \in 1..Len(query_tokens) : Contains(norm_text, query_tokens[k])
             \/ Contains(RemoveSpaces(norm_text), RemoveSpaces(norm_query))
             \/ (Len(query_tokens) > 1 /\ TokensInOrder(query_tokens, norm_text))

(***************************************************************************)
(* Dates.  A date string is an ordinary string; parse_date accepts the     *)
(* documented 'YYYY-MM-DD' form (optionally followed by 'T...') and yields *)
(* the day as the number YYYYMMDD, which orders as datetime does.          *)
(***************************************************************************)
Digit(c) == PosIn(DigitChars, c) - 1
AllDigits(s) == \A i \in 1..Len(s) : HasChar(DigitChars, CharAt(s, i))

RECURSIVE ToNumber(_)
ToNumber(s) == IF s = "" THEN 0 ELSE ToNumber(SubSeq(s, 1, Len(s) - 1)) * 10 + Digit(CharAt(s, Len(s)))

\* date_str.replace('Z', '+00:00')
RECURSIVE ReplaceZ(_)
ReplaceZ(s) ==
    IF s = "" THEN ""
    ELSE (IF Head(s) = "Z" THEN "+00:00" ELSE Head(s)) \o ReplaceZ(Tail(s))

\* s.split('T')[0]
RECURSIVE BeforeT(_)
BeforeT(s) ==
    IF s = "" \/ Head(s) = "T" THEN "" ELSE Head(s) \o BeforeT(Tail(s))

DaysInMonth(y, m) ==
    IF m \in {4, 6, 9, 11} THEN 30
    ELSE IF m = 2 THEN (IF (y % 4 = 0 /\ y % 100 # 0) \/ y % 400 = 0 THEN 29 ELSE 28)
    ELSE 31

\* datetime.fromisoformat(s) for a date-only string: None stands for ValueError
fromisoformat(s) ==
    IF /\ Len(s) = 10
       /\ CharAt(s, 5) = "-" /\ CharAt(s, 8) = "-"
       /\ AllDigits(SubSeq(s, 1, 4)) /\ AllDigits(SubSeq(s, 6, 7)) /\ AllDigits(SubSeq(s, 9, 10))
    THEN LET y == ToNumber(SubSeq(s, 1, 4))
             m == ToNumber(SubSeq(s, 6, 7))
             d == ToNumber(SubSeq(s, 9, 10))
         IN  IF y >= 1 /\ m \in 1..12 /\ d >= 1 /\ d <= DaysInMonth(y, m)
             THEN Some(y * 10000 + m * 100 + d)
             ELSE None
    ELSE None

parse_date(date_str) ==
    IF ~TruthyStr(date_str) THEN None
    ELSE fromisoformat(BeforeT(ReplaceZ(Val(date_str))))

(***************************************************************************)
(* Task records, as parse_schedule_row produces them: every key present,   *)
(* the Optional ones possibly None.                                        *)
(***************************************************************************)
Dep(pid, ptid, type, lag) ==
    [predecessorId |-> pid, predecessorTaskId |-> ptid, type |-> type, lag |-> lag]

Stage(name, percentage, effectiveDate) ==
    [name |-> name, percentage |-> percentage, isManualDate |-> TRUE,
     effectiveDate |-> effectiveDate]

\* the defaults of parse_schedule_row for a row that carries only an index;
\* money (totalPaymentAmount, and the amounts derived from it) is counted in
\* cents and a stage's percentage in whole percent
BlankTask(index) ==
    [index |-> index, id |-> "", task |-> "", taskType |-> "labour",
     hours |-> 0, consumed |-> 0, duration |-> 0,
     startDate |-> None, percentageComplete |-> 0,
     isCritical |-> FALSE, isMainTask |-> FALSE,
     mainTaskIndex |-> None, mainTaskId |-> None,
     subtaskIndices |-> None, subtaskIds |-> None,
     dependencies |-> <<>>, paymentStages |-> <<>>, totalPaymentAmount |-> 0,
     remarks |-> ""]

\* a status test that takes exactly 100 percent for unfinished
get_task_status_above100(task) ==
    IF task.percentageComplete > 100 THEN "completed"
    ELSE IF task.percentageComplete > 0 THEN "in_progress"
    ELSE "not_started"

get_task_status(task) ==
    IF task.percentageComplete >= 100 THEN "completed"
    ELSE IF task.percentageComplete > 0 THEN "in_progress"
    ELSE "not_started"

format_task_summary(task) ==
    [id |-> task.id, task |-> task.task, taskType |-> task.taskType,
     status |-> get_task_status(task),
     percentageComplete |-> task.percentageComplete,
     startDate |-> task.startDate, duration |-> task.duration, hours |-> task.hours,
     isCritical |-> task.isCritical, isMainTask |-> task.isMainTask,
     hasPayments |-> Len(task.paymentStages) > 0,
     totalPaymentAmount |-> task.totalPaymentAmount]

\* the truthy string values among fields, in order
RECURSIVE StrParts(_, _)
StrParts(item, fields) ==
    IF fields = <<>> THEN <<>>
    ELSE (IF item[Head(fields)] # "" THEN <<item[Head(fields)]>> ELSE <<>>)
         \o StrParts(item, Tail(fields))

\* the loop of build_searchable_context over the schedule: the position at
\* which it breaks (0 when it runs to the end)
ParentPos(task, sched) ==
    LET hit(p) == \/ Some(sched[p].id) = task.mainTaskId
                  \/ (task.mainTaskIndex # None /\ Some(sched[p].index) = task.mainTaskIndex)
        hits == {p \in 1..Len(sched) : hit(p)}
    IN  IF hits = {} THEN 0 ELSE CHOOSE p \in hits : \A q \in hits : p <= q

build_searchable_context(task, sched, include_parent) ==
    LET own == StrParts(task, <<"task", "remarks", "id", "taskType">>)
        p == ParentPos(task, sched)
        parent ==
            IF /\ include_parent /\ sched # <<>>
               /\ (TruthyStr(task.mainTaskId) \/ task.mainTaskIndex # None)
               /\ p # 0 /\ sched[p].task # ""
            THEN <<"under " \o sched[p].task, sched[p].task>>
            ELSE <<>>
    IN  JoinSpace(own \o parent)

match_text(item, search_query, fields, sched, include_parent_context) ==
    IF ~TruthyStr(search_query) THEN TRUE
    ELSE LET query == Strip(Val(search_query))
         IN  IF StrLower(query) \in {"all", "*", ""} THEN TRUE
             ELSE LET context_parts ==
                          StrParts(item, fields) \o
                          (IF include_parent_context /\ sched # <<>>
                              /\ "mainTaskId" \in DOMAIN item
                           THEN <<build_searchable_context(item, sched, TRUE)>>
                           ELSE <<>>)
                  IN  fuzzy_match(query, JoinSpace(context_parts))

(***************************************************************************)
(* query_schedule.  A list of tasks is held as the list of their positions *)
(* in the schedule (Python lists hold references to the same dicts).       *)
(***************************************************************************)
ScheduleArgs(taskType, status, isCritical, isMainTask, searchQuery, startDateFrom, startDateTo, returnType, limit, fieldToSum) ==
    [taskType |-> taskType, status |-> status, isCritical |-> isCritical,
     isMainTask |-> isMainTask, searchQuery |-> searchQuery,
     startDateFrom |-> startDateFrom, startDateTo |-> startDateTo,
     returnType |-> returnType, limit |-> limit, fieldToSum |-> fieldToSum]

AllPositions(sched) == [i \in 1..Len(sched) |-> i]

FilterByTaskType(sched, filtered, a) ==
    IF TruthyStr(a.taskType)
    THEN SelectSeq(filtered, LAMBDA i : sched[i].taskType = Val(a.taskType))
    ELSE filtered

\* a status filter that starts again from the whole schedule
FilterByStatus_restart(sched, filtered, a) ==
    IF TruthyStr(a.status)
    THEN SelectSeq(AllPositions(sched), LAMBDA i : get_task_status(sched[i]) = Val(a.status))
    ELSE filtered

FilterByStatus(sched, filtered, a) ==
    IF TruthyStr(a.status)
    THEN SelectSeq(filtered, LAMBDA i : get_task_status(sched[i]) = Val(a.status))
    ELSE filtered

FilterByCritical(sched, filtered, a) ==
    IF a.isCritical # None
    THEN SelectSeq(filtered, LAMBDA i : sched[i].isCritical = Val(a.isCritical))
    ELSE filtered

FilterByMainTask(sched, filtered, a) ==
    IF a.isMainTask # None
    THEN SelectSeq(filtered, LAMBDA i : sched[i].isMainTask = Val(a.isMainTask))
    ELSE filtered

FilterBySearch(sched, filtered, a) ==
    IF TruthyStr(a.searchQuery)
    THEN SelectSeq(filtered, LAMBDA i :
             match_text(sched[i], a.searchQuery, <<"task", "remarks">>, sched, TRUE))
    ELSE filtered

\* a date filter whose upper bound is exclusive
FilterByDateRange_exclusive(sched, filtered, a) ==
    LET start_from == parse_date(a.startDateFrom)
        start_to == parse_date(a.startDateTo)
        keep(i) ==
            LET task_start == parse_date(sched[i].startDate)
            IN  /\ task_start # None
                /\ ~(start_from # None /\ Val(task_start) < Val(start_from))
                /\ ~(start_to # None /\ Val(task_start) >= Val(start_to))
    IN  IF start_from # None \/ start_to # None
        THEN SelectSeq(filtered, keep)
        ELSE filtered

FilterByDateRange(sched, filtered, a) ==
    LET start_from == parse_date(a.startDateFrom)
        start_to == parse_date(a.startDateTo)
        keep(i) ==
            LET task_start == parse_date(sched[i].startDate)
            IN  /\ task_start # None
                /\ ~(start_from # None /\ Val(task_start) < Val(start_from))
                /\ ~(start_to # None /\ Val(task_start) > Val(start_to))
    IN  IF start_from # None \/ start_to # None
        THEN SelectSeq(filtered, keep)
        ELSE filtered

\* the filter chain of execute_query_schedule, each filter narrowing the last
FilteredTasks(sched, a) ==
    FilterByDateRange(sched,
      FilterBySearch(sched,
        FilterByMainTask(sched,
          FilterByCritical(sched,
            FilterByStatus(sched,
              FilterByTaskType(sched, AllPositions(sched), a), a), a), a), a), a)

\* s[:limit] for a Python int or None
SliceTo(s, limit) ==
    IF limit = None THEN s
    ELSE IF Val(limit) >= 0 THEN SubSeq(s, 1, Min(Val(limit), Len(s)))
    ELSE SubSeq(s, 1, Max(Len(s) + Val(limit), 0))

NumericFields == {"hours", "consumed", "duration", "percentageComplete",
                  "totalPaymentAmount", "index"}

\* a sum that reads hours whatever field is named
FieldAsNumber_hoursOnly(task, field) == task.hours

\* float(value) if value else 0, a ValueError or TypeError contributing nothing
FieldAsNumber(task, field) ==
    IF field \in NumericFields THEN task[field]
    ELSE IF field \in {"isCritical", "isMainTask"} THEN (IF task[field] THEN 1 ELSE 0)
    ELSE IF field \in {"task", "remarks", "id", "taskType"}
            /\ task[field] # "" /\ AllDigits(task[field])
         THEN ToNumber(task[field])
    ELSE 0

\* {k: v for k, v in args.items()
\*  if v is not None and k not in ["returnType", "limit", "fieldToSum"]}
ScheduleFiltersApplied(a) ==
    [k \in {f \in {"taskType", "status", "isCritical", "isMainTask", "searchQuery",
                   "startDateFrom", "startDateTo"} : a[f] # None} |-> Val(a[k])]

execute_query_schedule(sched, a) ==
    LET filtered == FilteredTasks(sched, a)
        return_type == IF a.returnType = None THEN "list" ELSE Val(a.returnType)
        limit == IF a.limit = None THEN Some(10) ELSE a.limit
        field_to_sum == IF a.fieldToSum = None THEN "hours" ELSE Val(a.fieldToSum)
    IN  IF return_type = "count"
        THEN [count |-> Len(filtered), totalTasks |-> Len(sched),
              filtersApplied |-> ScheduleFiltersApplied(a)]
        ELSE IF return_type = "sum"
        THEN [sum |-> SumSeq([k \in 1..Len(filtered) |->
                                 FieldAsNumber(sched[filtered[k]], field_to_sum)]),
              fieldSummed |-> field_to_sum,
              matchedTasks |-> Len(filtered), totalTasks |-> Len(sched),
              filtersApplied |-> ScheduleFiltersApplied(a)]
        ELSE LET shown == SliceTo(filtered, limit)
             IN  [tasks |-> [k \in 1..Len(shown) |-> format_task_summary(sched[shown[k]])],
                  matchedCount |-> Len(filtered), returnedCount |-> Len(shown),
                  totalTasks |-> Len(sched),
                  filtersApplied |-> ScheduleFiltersApplied(a)]

(***************************************************************************)
(* get_task_details and query_task_hierarchy                               *)
(***************************************************************************)
\* an exception that leaves the handler
Raised(exc) == [raised |-> exc]

format_task_details(task) ==
    [id |-> task.id, index |-> task.index, task |-> task.task, taskType |-> task.taskType,
     status |-> get_task_status(task),
     percentageComplete |-> task.percentageComplete,
     startDate |-> task.startDate, duration |-> task.duration,
     hours |-> task.hours, consumed |-> task.consumed,
     hoursRemaining |-> Max(0, task.hours - task.consumed),
     isCritical |-> task.isCritical, isMainTask |-> task.isMainTask,
     mainTaskId |-> task.mainTaskId, subtaskIds |-> task.subtaskIds,
     dependencies |-> [k \in 1..Len(task.dependencies) |->
         [predecessorId |-> IF TruthyStr(task.dependencies[k].predecessorId)
                            THEN Val(task.dependencies[k].predecessorId)
                            ELSE task.dependencies[k].predecessorTaskId,
          type |-> task.dependencies[k].type, lag |-> task.dependencies[k].lag]],
     dependencyCount |-> Len(task.dependencies),
     paymentStages |-> task.paymentStages,
     totalPaymentAmount |-> task.totalPaymentAmount,
     hasPayments |-> Len(task.paymentStages) > 0,
     remarks |-> task.remarks]

\* the least position in cands, 0 when cands is empty: where a loop over the
\* schedule that breaks at its first hit stops
FirstOf(cands) == IF cands = {} THEN 0 ELSE CHOOSE p \in cands : \A q \in cands : p <= q

\* for parent in schedule: if parent.get("id") == main_task_id: ... break
ParentNameOf(task, sched) ==
    LET p == FirstOf({q \in 1..Len(sched) : Some(sched[q].id) = task.mainTaskId})
    IN  IF TruthyStr(task.mainTaskId) /\ p # 0 THEN Some(sched[p].task) ELSE None

\* a hint list that is not cut short
FirstNames_uncapped(sched, n) == [k \in 1..Len(sched) |-> sched[k].task]

\* [t.get("task") for t in schedule[:n]]
FirstNames(sched, n) == [k \in 1..Min(n, Len(sched)) |-> sched[k].task]

PAYMENT_TASK_TYPES == {"material", "subcontractor", "milestone"}

DetailsArgs(taskId, searchQuery, onlyPaymentCapable) ==
    [taskId |-> taskId, searchQuery |-> searchQuery, onlyPaymentCapable |-> onlyPaymentCapable]

\* task_id or search_query
SearchedFor(id, search) == IF TruthyStr(id) THEN id ELSE search

execute_get_task_details(sched, a) ==
    LET searchable == IF a.onlyPaymentCapable
                      THEN SelectSeq(AllPositions(sched),
                                     LAMBDA i : sched[i].taskType \in PAYMENT_TASK_TYPES)
                      ELSE AllPositions(sched)
        in_searchable == {searchable[k] : k \in 1..Len(searchable)}
        by_id == IF TruthyStr(a.taskId)
                 THEN FirstOf({i \in in_searchable : sched[i].id = Val(a.taskId)})
                 ELSE 0
        matches == IF TruthyStr(a.searchQuery)
                   THEN {i \in in_searchable :
                           fuzzy_match(Val(a.searchQuery), build_searchable_context(sched[i], sched, TRUE))}
                   ELSE {}
        score(i) == (IF fuzzy_match(Val(a.searchQuery), sched[i].task) THEN 100 ELSE 50)
                    + (IF a.onlyPaymentCapable /\ sched[i].taskType \in PAYMENT_TASK_TYPES
                       THEN 10 ELSE 0)
        best == FirstOf({i \in matches : \A j \in matches : score(j) <= score(i)})
        found == IF by_id # 0 THEN by_id ELSE best
    IN  IF found = 0
        THEN IF a.onlyPaymentCapable
             THEN [error |-> "No payment-capable task found matching your search",
                   searchedFor |-> SearchedFor(a.taskId, a.searchQuery),
                   note |-> "Only material, subcontractor, and milestone tasks can have payment stages",
                   availablePaymentTasks |->
                       [k \in 1..Min(10, Len(searchable)) |->
                           sched[searchable[k]].task \o " (" \o sched[searchable[k]].taskType \o ")"],
                   hint |-> "Try searching with different keywords or check the task name spelling"]
             ELSE [error |-> "Task not found",
                   searchedFor |-> SearchedFor(a.taskId, a.searchQuery),
                   availableTasks |-> FirstNames(sched, 10),
                   hint |-> "Try searching with the exact task name or parent task name"]
        ELSE LET parent == ParentNameOf(sched[found], sched)
             IN  IF parent # None
                 THEN format_task_details(sched[found]) @@ [parentTaskName |-> Val(parent)]
                 ELSE format_task_details(sched[found])

HierarchyArgs(mainTaskId, mainTaskSearch, includeDetails) ==
    [mainTaskId |-> mainTaskId, mainTaskSearch |-> mainTaskSearch,
     includeDetails |-> includeDetails]

\* a lookup that takes the task with the id asked for, main task or not
FindMainTask_anyTask(sched, a) ==
    LET by_id == IF TruthyStr(a.mainTaskId)
                 THEN FirstOf({i \in 1..Len(sched) : sched[i].id = Val(a.mainTaskId)})
                 ELSE 0
        by_name == IF TruthyStr(a.mainTaskSearch)
                   THEN FirstOf({i \in 1..Len(sched) :
                                   sched[i].isMainTask
                                   /\ fuzzy_match(Val(a.mainTaskSearch), sched[i].task)})
                   ELSE 0
    IN  IF by_id # 0 THEN by_id ELSE by_name

\* the main task query_task_hierarchy settles on: its position, 0 for none
FindMainTask(sched, a) ==
    LET by_id == IF TruthyStr(a.mainTaskId)
                 THEN FirstOf({i \in 1..Len(sched) :
                                 sched[i].id = Val(a.mainTaskId) /\ sched[i].isMainTask})
                 ELSE 0
        by_name == IF TruthyStr(a.mainTaskSearch)
                   THEN FirstOf({i \in 1..Len(sched) :
                                   sched[i].isMainTask
                                   /\ fuzzy_match(Val(a.mainTaskSearch), sched[i].task)})
                   ELSE 0
    IN  IF by_id # 0 THEN by_id ELSE by_name

InList(x, list) == \E k \in 1..Len(list) : list[k] = x

\* a subtask loop that forgets the mainTaskId linkage
SubtaskTest_noMainTaskId(sched, m, i) ==
    IF sched[m].subtaskIds = None THEN "TypeError"
    ELSE IF InList(sched[i].id, Val(sched[m].subtaskIds)) THEN "yes"
    ELSE IF sched[m].subtaskIndices = None THEN "TypeError"
    ELSE IF InList(sched[i].index, Val(sched[m].subtaskIndices)) THEN "yes"
    ELSE "no"

\* the if/elif/elif of the subtask loop for the task at position i; the `in`
\* test on a None list is the TypeError Python raises there
SubtaskTest(sched, m, i) ==
    IF sched[m].subtaskIds = None THEN "TypeError"
    ELSE IF InList(sched[i].id, Val(sched[m].subtaskIds)) THEN "yes"
    ELSE IF sched[m].subtaskIndices = None THEN "TypeError"
    ELSE IF InList(sched[i].index, Val(sched[m].subtaskIndices)) THEN "yes"
    ELSE IF sched[i].mainTaskId = Some(sched[m].id) THEN "yes"
    ELSE "no"

execute_query_task_hierarchy(sched, a) ==
    LET m == FindMainTask(sched, a)
    IN  IF m = 0
        THEN [error |-> "Main task not found",
              searchedFor |-> SearchedFor(a.mainTaskId, a.mainTaskSearch),
              availableMainTasks |->
                  LET mains == SelectSeq(AllPositions(sched), LAMBDA i : sched[i].isMainTask)
                  IN  [k \in 1..Len(mains) |-> sched[mains[k]].task]]
        ELSE IF \E i \in 1..Len(sched) : SubtaskTest(sched, m, i) = "TypeError"
        THEN Raised("TypeError")
        ELSE LET subtasks == SelectSeq(AllPositions(sched),
                                       LAMBDA i : SubtaskTest(sched, m, i) = "yes")
             IN  [mainTask |-> format_task_summary(sched[m]),
                  subtasks |-> [k \in 1..Len(subtasks) |->
                                  IF a.includeDetails
                                  THEN format_task_details(sched[subtasks[k]])
                                  ELSE format_task_summary(sched[subtasks[k]])],
                  subtaskCount |-> Len(subtasks),
                  totals |-> [hours |-> SumSeq([k \in 1..Len(subtasks) |-> sched[subtasks[k]].hours]),
                              consumed |-> SumSeq([k \in 1..Len(subtasks) |-> sched[subtasks[k]].consumed]),
                              duration |-> SumSeq([k \in 1..Len(subtasks) |-> sched[subtasks[k]].duration])]]

(***************************************************************************)
(* query_dependencies.  Target resolution and the result are one step each *)
(* and the recursive walk is run one loop iteration at a time: a frame of  *)
(* `stack` is one activation of get_predecessors or get_successors with    *)
(* its loop position, `visited` is the set the activations share, and      *)
(* `emitted` lists the entries appended so far in pre-order, each with its *)
(* depth in the tree (1 for the entries of the top-level list).            *)
(***************************************************************************)
DependencyArgs(taskId, taskSearch, direction, includeChain) ==
    [taskId |-> taskId, taskSearch |-> taskSearch,
     direction |-> direction, includeChain |-> includeChain]

DirectionOf(a) == IF a.direction = None THEN "predecessors" ELSE Val(a.direction)
IncludeChain(a) == a.includeChain = Some(TRUE)

\* {t.get("id"): t for t in schedule}.get(id): the last task with that id
id_to_task(sched, id) ==
    LET hits == {i \in 1..Len(sched) : sched[i].id = id}
    IN  IF hits = {} THEN 0 ELSE CHOOSE p \in hits : \A q \in hits : q <= p

\* {str(t.get("index")): t for t in schedule}.get(key)
index_to_task(sched, key) ==
    LET hits == {i \in 1..Len(sched) : Str(sched[i].index) = key}
    IN  IF hits = {} THEN 0 ELSE CHOOSE p \in hits : \A q \in hits : q <= p

\* dep.get("predecessorId") or dep.get("predecessorTaskId")
PredIdOf(dep) ==
    IF TruthyStr(dep.predecessorId) THEN Val(dep.predecessorId) ELSE dep.predecessorTaskId

\* a lookup that knows ids only
ResolvePredecessor_idOnly(sched, dep) == id_to_task(sched, PredIdOf(dep))

\* id_to_task.get(pred_id) or index_to_task.get(pred_id)
ResolvePredecessor(sched, dep) ==
    IF id_to_task(sched, PredIdOf(dep)) # 0
    THEN id_to_task(sched, PredIdOf(dep))
    ELSE index_to_task(sched, PredIdOf(dep))

\* the target task of query_dependencies: its position, 0 for none
FindTarget(sched, a) ==
    LET by_id == IF TruthyStr(a.taskId) THEN id_to_task(sched, Val(a.taskId)) ELSE 0
        by_name == IF TruthyStr(a.taskSearch)
                   THEN FirstOf({i \in 1..Len(sched) :
                           fuzzy_match(Val(a.taskSearch),
                                       build_searchable_context(sched[i], sched, TRUE))})
                   ELSE 0
    IN  IF by_id # 0 THEN by_id ELSE by_name

\* the first dependency of task that names the walked task, 0 for none
NamingDep(task, tid, tindex) ==
    FirstOf({k \in 1..Len(task.dependencies) :
               PredIdOf(task.dependencies[k]) \in {tid, tindex}})

\* a walk without cycle protection: no task counts as visited
AlreadyVisited_never(seen, id) == FALSE

\* `if task_id in visited: return []`, for the task a recursive call is made on
AlreadyVisited(seen, id) == id \in seen

\* an entry that reports every dependency as finish-to-start without lag
Entry_alwaysFS(pos, dep, depth, chain) ==
    [task |-> pos, dependencyType |-> "FS", lag |-> 0, depth |-> depth, chain |-> chain]

Entry(pos, dep, depth, chain) ==
    [task |-> pos, dependencyType |-> dep.type, lag |-> dep.lag,
     depth |-> depth, chain |-> chain]

\* a chained walk that expands every task it reaches
ChainOf_noCut(a, seen, id) == IF ~IncludeChain(a) THEN "absent" ELSE "expanded"

\* what an entry's nested list is: absent without includeChain, cut short (the
\* empty list) for a task already visited, expanded otherwise
ChainOf(a, seen, id) ==
    IF ~IncludeChain(a) THEN "absent"
    ELSE IF AlreadyVisited(seen, id) THEN "cut" ELSE "expanded"

Top == stack[Len(stack)]
Below == SubSeq(stack, 1, Len(stack) - 1)

\* the record execute_query_dependencies returns after the walk
DependencyResult(sched, a, target, entries) ==
    [targetTask |-> format_task_summary(sched[target]),
     direction |-> DirectionOf(a),
     includeChain |-> IncludeChain(a),
     count |-> Cardinality({k \in 1..Len(entries) : entries[k].depth = 1})]
    @@ (DirectionOf(a) :> entries)

\* the call: resolve the target, then either the not-found result or the
\* top-level activation of the walk
QueryDependencies(a) ==
    /\ pc = "idle"
    /\ op' = "query_dependencies"
    /\ args' = a
    /\ LET target == FindTarget(schedule, a)
       IN  IF target = 0
           THEN /\ result' = [error |-> "Task not found",
                              searchedFor |-> SearchedFor(a.taskId, a.taskSearch),
                              availableTasks |-> FirstNames(schedule, 10)]
                /\ pc' = "returned"
                /\ UNCHANGED <<visited, stack, emitted>>
           ELSE /\ result' = [target |-> target]
                /\ pc' = "walking"
                /\ visited' = {schedule[target].id}
                /\ stack' = << [task |-> target, next |-> 1, depth |-> 1] >>
                /\ emitted' = <<>>
    /\ UNCHANGED <<schedule, remote, attempts>>

\* one iteration of `for dep in task.get("dependencies", [])`
PredecessorStep ==
    /\ pc = "walking" /\ DirectionOf(args) = "predecessors"
    /\ Top.next <= Len(schedule[Top.task].dependencies)
    /\ LET dep == schedule[Top.task].dependencies[Top.next]
           pred == ResolvePredecessor(schedule, dep)
           advanced == [Top EXCEPT !.next = Top.next + 1]
       IN  IF pred = 0
           THEN /\ stack' = Append(Below, advanced)
                /\ UNCHANGED <<visited, emitted>>
           ELSE LET chain == ChainOf(args, visited, schedule[pred].id)
                IN  /\ emitted' = Append(emitted, Entry(pred, dep, Top.depth, chain))
                    /\ IF chain = "expanded"
                       THEN /\ visited' = visited \cup {schedule[pred].id}
                            /\ stack' = Append(Append(Below, advanced),
                                               [task |-> pred, next |-> 1, depth |-> Top.depth + 1])
                       ELSE /\ stack' = Append(Below, advanced)
                            /\ UNCHANGED visited
    /\ UNCHANGED <<schedule, remote, attempts, op, args, result, pc>>

\* one iteration of `for t in schedule` in get_successors, its inner loop over
\* t's dependencies included
SuccessorStep ==
    /\ pc = "walking" /\ DirectionOf(args) # "predecessors"
    /\ Top.next <= Len(schedule)
    /\ LET t == schedule[Top.next]
           walked == schedule[Top.task]
           k == NamingDep(t, walked.id, Str(walked.index))
           advanced == [Top EXCEPT !.next = Top.next + 1]
       IN  IF k = 0
           THEN /\ stack' = Append(Below, advanced)
                /\ UNCHANGED <<visited, emitted>>
           ELSE LET chain == ChainOf(args, visited, t.id)
                IN  /\ emitted' = Append(emitted, Entry(Top.next, t.dependencies[k], Top.depth, chain))
                    /\ IF chain = "expanded"
                       THEN /\ visited' = visited \cup {t.id}
                            /\ stack' = Append(Append(Below, advanced),
                                               [task |-> Top.next, next |-> 1, depth |-> Top.depth + 1])
                       ELSE /\ stack' = Append(Below, advanced)
                            /\ UNCHANGED visited
    /\ UNCHANGED <<schedule, remote, attempts, op, args, result, pc>>

\* the loop of the top activation is over
LoopDone ==
    IF DirectionOf(args) = "predecessors"
    THEN Top.next > Len(schedule[Top.task].dependencies)
    ELSE Top.next > Len(schedule)

\* `return preds` / `return succs` of a nested activation
WalkReturn ==
    /\ pc = "walking" /\ Len(stack) > 1 /\ LoopDone
    /\ stack' = Below
    /\ UNCHANGED <<schedule, remote, attempts, op, args, result, pc, visited, emitted>>

\* the top-level activation returns and the handler builds its result
WalkFinish ==
    /\ pc = "walking" /\ Len(stack) = 1 /\ LoopDone
    /\ result' = DependencyResult(schedule, args, result.target, emitted)
    /\ pc' = "returned"
    /\ stack' = <<>>
    /\ UNCHANGED <<schedule, remote, attempts, op, args, visited, emitted>>

WalkNext == PredecessorStep \/ SuccessorStep \/ WalkReturn \/ WalkFinish

(***************************************************************************)
(* query_payment_schedule.  Amounts are whole cents; round(x, 2) of a share *)
(* that lies exactly half-way between two cents goes whichever way the      *)
(* float product falls, so the handler takes the set `up` of the (task,     *)
(* stage) positions whose half-way share is rounded up.                     *)
(***************************************************************************)
PaymentArgs(dateFrom, dateTo, taskType, taskSearch, returnType) ==
    [dateFrom |-> dateFrom, dateTo |-> dateTo, taskType |-> taskType,
     taskSearch |-> taskSearch, returnType |-> returnType]

\* args.get("returnType", "list"), anything but summary and timeline listing
ReturnTypeOf(a) ==
    IF a.returnType \in {Some("summary"), Some("timeline")} THEN Val(a.returnType) ELSE "list"

\* the printable characters in code-point order (the quote, the backslash and
\* the backtick left out), for Python's comparison of str
AsciiOrder ==
    " !#$%&'()*+,-./0123456789:;<=>?@ABCDEFGHIJKLMNOPQRSTUVWXYZ[]^_abcdefghijklmnopqrstuvwxyz{|}~"

RECURSIVE StrLess(_, _)
StrLess(a, b) ==
    IF b = "" THEN FALSE
    ELSE IF a = "" THEN TRUE
    ELSE IF CharAt(a, 1) = CharAt(b, 1)
         THEN StrLess(SubSeq(a, 2, Len(a)), SubSeq(b, 2, Len(b)))
         ELSE PosIn(AsciiOrder, CharAt(a, 1)) < PosIn(AsciiOrder, CharAt(b, 1))

\* a test that lets tasks without an amount through
SkipsAmount_negativeOnly(total_amount) == total_amount < 0

\* if total_amount <= 0: continue
SkipsAmount(total_amount) == total_amount <= 0

\* rounding that always goes down
RoundToCents_floor(total_amount, pct, tieUp) == (total_amount * pct) \div 100

\* round(total_amount * (pct / 100), 2), in cents
RoundToCents(total_amount, pct, tieUp) ==
    LET q == (total_amount * pct) \div 100
        r == (total_amount * pct) % 100
    IN  IF r > 50 \/ (r = 50 /\ tieUp) THEN q + 1 ELSE q

\* the (task, stage) positions whose share is half-way between two cents
TiePoints(sched) ==
    {<<i, k>> \in (1..Len(sched)) \X (1..3) :
        /\ k <= Len(sched[i].paymentStages)
        /\ (sched[i].totalPaymentAmount * sched[i].paymentStages[k].percentage) % 100 = 50}

\* the date filters of the stage loop
StageSurvives(stage, a) ==
    LET date_from == parse_date(a.dateFrom)
        date_to == parse_date(a.dateTo)
        effective_date == parse_date(stage.effectiveDate)
    IN  /\ ~(date_from # None /\ effective_date # None /\ Val(effective_date) < Val(date_from))
        /\ ~(date_to # None /\ effective_date # None /\ Val(effective_date) > Val(date_to))

\* the type and search filters of the task loop
TaskSurvives(sched, i, a) ==
    /\ ~(TruthyStr(a.taskType) /\ sched[i].taskType # Val(a.taskType))
    /\ TruthyStr(a.taskSearch) =>
          fuzzy_match(Val(a.taskSearch), build_searchable_context(sched[i], sched, TRUE))

payment_entry(sched, i, k, up) ==
    LET task == sched[i]
        stage == task.paymentStages[k]
        parent == ParentNameOf(task, sched)
        entry == [taskId |-> task.id, taskName |-> task.task, taskType |-> task.taskType,
                  stageName |-> stage.name, percentage |-> stage.percentage,
                  amount |-> RoundToCents(task.totalPaymentAmount, stage.percentage,
                                          <<i, k>> \in up),
                  effectiveDate |-> stage.effectiveDate,
                  isManualDate |-> stage.isManualDate,
                  taskStatus |-> get_task_status(task)]
    IN  IF TruthyStr(parent) THEN entry @@ [parentTaskName |-> Val(parent)] ELSE entry

\* the entries one task appends to all_payments
TaskPayments(sched, i, a, up) ==
    IF ~TaskSurvives(sched, i, a) \/ SkipsAmount(sched[i].totalPaymentAmount)
    THEN <<>>
    ELSE LET stages == sched[i].paymentStages
             kept == SelectSeq([k \in 1..Len(stages) |-> k],
                               LAMBDA k : StageSurvives(stages[k], a))
         IN  [j \in 1..Len(kept) |-> payment_entry(sched, i, kept[j], up)]

\* x.get("effectiveDate") or "9999-12-31"
SortKey(p) == IF TruthyStr(p.effectiveDate) THEN Val(p.effectiveDate) ELSE "9999-12-31"

\* where the stable sort puts p among entries already in order
RECURSIVE InsertByKey(_, _)
InsertByKey(sorted, p) ==
    IF sorted = <<>> THEN <<p>>
    ELSE IF StrLess(SortKey(p), SortKey(Head(sorted))) THEN <<p>> \o sorted
    ELSE <<Head(sorted)>> \o InsertByKey(Tail(sorted), p)

\* the payments left in collection order
SortByDate_unsorted(entries) == entries

\* all_payments.sort(key=...)
RECURSIVE SortByDate(_)
SortByDate(entries) ==
    IF entries = <<>> THEN <<>>
    ELSE InsertByKey(SortByDate(SubSeq(entries, 1, Len(entries) - 1)), entries[Len(entries)])

\* all_payments once the loops and the sort are done
CollectPayments(sched, a, up) ==
    SortByDate(FlattenSeq([i \in 1..Len(sched) |-> TaskPayments(sched, i, a, up)]))

\* {k: v for k, v in args.items() if v is not None and k != "returnType"}
FiltersApplied(a) ==
    [k \in {f \in {"dateFrom", "dateTo", "taskType", "taskSearch"} : a[f] # None} |-> Val(a[k])]

\* a summary that counts one payment per task type
ByTaskType_onePerType(payments, by_type) ==
    [tt \in {payments[k].taskType : k \in 1..Len(payments)} |->
        [count |-> 1, total |-> SumSeq([k \in 1..Len(payments) |-> payments[k].amount])]]

\* the loop that groups the payments by task type
RECURSIVE ByTaskType(_, _)
ByTaskType(payments, by_type) ==
    IF payments = <<>> THEN by_type
    ELSE LET p == Head(payments)
             cur == IF p.taskType \in DOMAIN by_type THEN by_type[p.taskType]
                    ELSE [count |-> 0, total |-> 0]
         IN  ByTaskType(Tail(payments),
                        (p.taskType :> [count |-> cur.count + 1, total |-> cur.total + p.amount])
                           @@ by_type)

\* date_str[:7], or "Unscheduled" for a payment without a date
MonthKey(p) ==
    IF TruthyStr(p.effectiveDate) /\ Val(p.effectiveDate) # "Unknown"
    THEN SubSeq(Val(p.effectiveDate), 1, Min(7, Len(Val(p.effectiveDate))))
    ELSE "Unscheduled"

\* the loop that groups the payments by month
RECURSIVE ByMonth(_, _)
ByMonth(payments, by_month) ==
    IF payments = <<>> THEN by_month
    ELSE LET p == Head(payments)
             cur == IF MonthKey(p) \in DOMAIN by_month THEN by_month[MonthKey(p)]
                    ELSE [payments |-> <<>>, total |-> 0]
         IN  ByMonth(Tail(payments),
                     (MonthKey(p) :> [payments |-> Append(cur.payments, p),
                                      total |-> cur.total + p.amount])
                        @@ by_month)

\* the record the handler returns for all_payments
PaymentResult(all_payments, a) ==
    LET grand_total == SumSeq([k \in 1..Len(all_payments) |-> all_payments[k].amount])
    IN  IF ReturnTypeOf(a) = "summary"
        THEN [byTaskType |-> ByTaskType(all_payments, <<>>),
              grandTotal |-> grand_total,
              totalPayments |-> Len(all_payments),
              filtersApplied |-> FiltersApplied(a)]
        ELSE IF ReturnTypeOf(a) = "timeline"
        THEN [timeline |-> ByMonth(all_payments, <<>>),
              grandTotal |-> grand_total,
              totalPayments |-> Len(all_payments),
              filtersApplied |-> FiltersApplied(a)]
        ELSE [payments |-> all_payments,
              totalPayments |-> Len(all_payments),
              grandTotal |-> grand_total,
              filtersApplied |-> FiltersApplied(a)]

execute_query_payment_schedule(sched, a, up) ==
    PaymentResult(CollectPayments(sched, a, up), a)

(***************************************************************************)
(* Input documents.  A schedule of n tasks is built from n profiles (task  *)
(* records that fix everything but the identity); the task at position k   *)
(* gets index k-1 and the id parse_schedule_row defaults to, task_<index>. *)
(***************************************************************************)
IdOf(k) == "task_" \o Str(k - 1)

WithIdentity(profile, k) == [profile EXCEPT !.index = k - 1, !.id = IdOf(k)]

SchedulesOver(profiles, maxLen) ==
    UNION {{[k \in 1..n |-> WithIdentity(f[k], k)] : f \in [1..n -> profiles]} : n \in 0..maxLen}

\* the longest schedule of the filter, hierarchy and payment documents
MaxTasks == 2

Idle ==
    /\ op = "none" /\ args = <<>> /\ result = <<>>
    /\ pc = "idle" /\ visited = {} /\ stack = <<>> /\ emitted = <<>>
    /\ remote = None /\ attempts = <<>>

(***************************************************************************)
(* Documents and calls for query_schedule                                  *)
(***************************************************************************)
FilterProfiles ==
    LET b == BlankTask(0)
    IN  { [b EXCEPT !.task = "Site Prep", !.taskType = "milestone", !.percentageComplete = 100,
                    !.isCritical = TRUE, !.isMainTask = TRUE, !.hours = 8,
                    !.startDate = Some("2024-05-01")],
          [b EXCEPT !.task = "Clean-Up", !.taskType = "milestone", !.percentageComplete = 0,
                    !.hours = 3, !.startDate = Some("2024-05-13T08:00:00Z"),
                    !.mainTaskIndex = Some(0), !.mainTaskId = Some("task_0")],
          [b EXCEPT !.task = "Demo", !.taskType = "labour", !.percentageComplete = 50,
                    !.isCritical = TRUE, !.hours = 5, !.remarks = "cleanup after",
                    !.startDate = None],
          [b EXCEPT !.task = "Paint", !.taskType = "labour", !.percentageComplete = 100,
                    !.hours = 2, !.startDate = Some("05/20/2024")],
          [b EXCEPT !.task = "Flooring", !.taskType = "material", !.percentageComplete = 99,
                    !.isCritical = TRUE, !.hours = 1, !.startDate = Some("2024-05-02"),
                    !.mainTaskId = Some("task_0")] }

ScheduleArgSet ==
    { ScheduleArgs(tt, st, cr, mt, sq, df, dt, rt, None, None) :
        tt \in {None, Some("milestone")},
        st \in {None, Some("completed"), Some("in_progress"), Some("not_started")},
        cr \in {None, Some(TRUE)},
        mt \in {None, Some(FALSE)},
        sq \in {None, Some("cleanup")},
        df \in {None, Some("2024-05-02")},
        dt \in {None, Some("2024-05-13"), Some("2024-05-01")},
        rt \in {None, Some("count")} }

InitFilter == schedule \in SchedulesOver(FilterProfiles, MaxTasks) /\ Idle

QuerySchedule ==
    /\ pc = "idle"
    /\ \E a \in ScheduleArgSet :
          /\ op' = "query_schedule"
          /\ args' = a
          /\ result' = execute_query_schedule(schedule, a)
    /\ pc' = "returned"
    /\ UNCHANGED <<schedule, remote, attempts, visited, stack, emitted>>

\* the tool loop takes the result and is ready for the next tool call
NextCall ==
    /\ pc = "returned"
    /\ op' = "none" /\ args' = <<>> /\ result' = <<>> /\ pc' = "idle"
    /\ visited' = {} /\ stack' = <<>> /\ emitted' = <<>> /\ attempts' = <<>>
    /\ UNCHANGED <<schedule, remote>>

NextFilter == QuerySchedule \/ NextCall

SpecFilter == InitFilter /\ [][NextFilter]_vars

(***************************************************************************)
(* Documents and calls for query_dependencies                              *)
(***************************************************************************)
\* the longest schedule of the dependency documents
MaxDepTasks == 3

\* dependency lists over the tasks task_0, task_1, task_2: by id, by legacy
\* index only, by an id no task has, and twice for the same task
DependencyProfiles ==
    LET b == [BlankTask(0) EXCEPT !.task = "Demo"]
    IN  { b,
          [b EXCEPT !.dependencies = <<Dep(Some("task_0"), "0", "FS", 0)>>],
          [b EXCEPT !.dependencies = <<Dep(Some("task_1"), "1", "FS", 0)>>],
          [b EXCEPT !.dependencies = <<Dep(Some("task_1"), "1", "FS", 0),
                                       Dep(Some("task_2"), "2", "SS", 2)>>],
          [b EXCEPT !.dependencies = <<Dep(None, "0", "FS", 0)>>],
          [b EXCEPT !.dependencies = <<Dep(Some("task_9"), "1", "FF", 0)>>],
          [b EXCEPT !.dependencies = <<Dep(Some("task_2"), "2", "FS", 0),
                                       Dep(None, "2", "FS", -7)>>] }

DependencyArgSet ==
    { DependencyArgs(id, None, dir, chain) :
        id \in {Some("task_0"), Some("task_1"), Some("task_2"), Some("task_9")},
        dir \in {None, Some("successors")},
        chain \in {None, Some(TRUE)} }

InitDeps == schedule \in SchedulesOver(DependencyProfiles, MaxDepTasks) /\ Idle

CallQueryDependencies == \E a \in DependencyArgSet : QueryDependencies(a)

NextDeps == CallQueryDependencies \/ WalkNext \/ NextCall

SpecDeps == InitDeps /\ [][NextDeps]_vars

\* a running handler keeps running: the walk is not suspended for ever
SpecDepsFair == SpecDeps /\ WF_vars(WalkNext)

(***************************************************************************)
(* Documents and calls for query_task_hierarchy                            *)
(***************************************************************************)
\* the longest schedule of the hierarchy documents
MaxHierTasks == 4

\* main tasks whose child lists are null (as parse_schedule_row leaves them
\* when the row has none), partly given or empty, and tasks that are or are
\* not children of task_0 by their own mainTaskId
HierarchyProfiles ==
    LET main == [BlankTask(0) EXCEPT !.task = "Kitchen Remodel", !.isMainTask = TRUE]
        sub == [BlankTask(0) EXCEPT !.task = "Demo", !.hours = 4, !.consumed = 1]
    IN  { main,
          [main EXCEPT !.subtaskIds = Some(<<"task_1">>), !.subtaskIndices = Some(<<2>>)],
          [main EXCEPT !.subtaskIds = Some(<<"task_1">>)],
          [main EXCEPT !.subtaskIds = Some(<<>>), !.subtaskIndices = Some(<<>>)],
          sub,
          [sub EXCEPT !.task = "Cabinets", !.mainTaskId = Some("task_0"),
                      !.mainTaskIndex = Some(0)] }

HierarchyArgSet ==
    { HierarchyArgs(id, search, details) :
        id \in {None, Some("task_0"), Some("task_1")},
        search \in {None, Some("kitchen")},
        details \in BOOLEAN }

InitHier == schedule \in SchedulesOver(HierarchyProfiles, MaxHierTasks) /\ Idle

QueryTaskHierarchy ==
    /\ pc = "idle"
    /\ \E a \in HierarchyArgSet :
          /\ op' = "query_task_hierarchy"
          /\ args' = a
          /\ result' = execute_query_task_hierarchy(schedule, a)
    /\ pc' = "returned"
    /\ UNCHANGED <<schedule, remote, attempts, visited, stack, emitted>>

NextHier == QueryTaskHierarchy \/ NextCall

SpecHier == InitHier /\ [][NextHier]_vars

(***************************************************************************)
(* Documents and calls for the lookups that may find nothing: schedules    *)
(* long enough for the hint lists to be cut short                          *)
(***************************************************************************)
\* the longest schedule of the lookup documents
MaxListed == 11

\* the widest spacing of main tasks in the lookup documents
MaxSpacing == 3

\* the task at position k of a schedule whose every m-th task is a main task
\* ("Phase <index>", milestone) and whose other tasks ("Task <index>", labour)
\* are children of the main task before them; each task depends on the one
\* before it
PatternTask(k, m) ==
    LET main == (k - 1) % m = 0
    IN  WithIdentity(
          [BlankTask(0) EXCEPT
             !.task = (IF main THEN "Phase " ELSE "Task ") \o Str(k - 1),
             !.isMainTask = main,
             !.taskType = IF main THEN "milestone" ELSE "labour",
             !.subtaskIds = IF main THEN Some(<<>>) ELSE None,
             !.subtaskIndices = IF main THEN Some(<<>>) ELSE None,
             !.mainTaskId = IF main THEN None ELSE Some(IdOf(k - ((k - 1) % m))),
             !.dependencies = IF k > 1 THEN <<Dep(Some(IdOf(k - 1)), Str(k - 2), "FS", 0)>>
                              ELSE <<>>], k)

PatternSchedules ==
    {[k \in 1..n |-> PatternTask(k, m)] : n \in 0..MaxListed, m \in 1..MaxSpacing}

LookupHierarchyArgSet ==
    { HierarchyArgs(id, search, FALSE) :
        id \in {None, Some(""), Some("task_1"), Some("task_99")},
        search \in {None, Some("phase 0"), Some("phase 1"), Some("garage")} }

LookupDetailsArgSet ==
    { DetailsArgs(id, search, payment) :
        id \in {None, Some("task_1"), Some("task_99")},
        search \in {None, Some("task 1"), Some("garage")},
        payment \in BOOLEAN }

LookupDependencyArgSet ==
    { DependencyArgs(id, search, dir, chain) :
        id \in {None, Some("task_1"), Some("task_99")},
        search \in {None, Some("phase 0"), Some("garage")},
        dir \in {None, Some("successors")},
        chain \in {None, Some(TRUE)} }

InitLookup == schedule \in PatternSchedules /\ Idle

LookupHierarchy ==
    /\ pc = "idle"
    /\ \E a \in LookupHierarchyArgSet :
          /\ op' = "query_task_hierarchy"
          /\ args' = a
          /\ result' = execute_query_task_hierarchy(schedule, a)
    /\ pc' = "returned"
    /\ UNCHANGED <<schedule, remote, attempts, visited, stack, emitted>>

LookupDetails ==
    /\ pc = "idle"
    /\ \E a \in LookupDetailsArgSet :
          /\ op' = "get_task_details"
          /\ args' = a
          /\ result' = execute_get_task_details(schedule, a)
    /\ pc' = "returned"
    /\ UNCHANGED <<schedule, remote, attempts, visited, stack, emitted>>

LookupDependencies == \E a \in LookupDependencyArgSet : QueryDependencies(a)

NextLookup == LookupHierarchy \/ LookupDetails \/ LookupDependencies \/ WalkNext \/ NextCall

SpecLookup == InitLookup /\ [][NextLookup]_vars

(***************************************************************************)
(* Documents and calls for query_payment_schedule                          *)
(***************************************************************************)
\* the longest schedule of the payment documents
MaxPayTasks == 2

\* tasks with an amount (4200.00 and 9000.00 in shares that are whole cents,
\* 0.02 in three shares that are not, 1.01 in two half-way shares, 10.00 with
\* one stage whose date does not parse), a task with stages and no amount,
\* and one with a negative amount
PaymentProfiles ==
    LET b == BlankTask(0)
    IN  { [b EXCEPT !.task = "Cabinets", !.taskType = "material",
                    !.percentageComplete = 50, !.totalPaymentAmount = 420000,
                    !.paymentStages = <<Stage("Deposit", 25, Some("2024-05-01")),
                                        Stage("Final", 75, Some("2024-06-15"))>>],
          [b EXCEPT !.task = "Countertops", !.taskType = "material",
                    !.totalPaymentAmount = 900000,
                    !.paymentStages = <<Stage("On delivery", 70, Some("2024-07-01")),
                                        Stage("Deposit", 30, Some("2024-05-05"))>>],
          [b EXCEPT !.task = "Tile", !.taskType = "material", !.totalPaymentAmount = 2,
                    !.paymentStages = <<Stage("A", 33, None),
                                        Stage("B", 33, Some("2024-05-20")),
                                        Stage("C", 34, Some("2024-05-01"))>>],
          [b EXCEPT !.task = "Electrical", !.taskType = "subcontractor",
                    !.totalPaymentAmount = 0,
                    !.paymentStages = <<Stage("Rough-in", 100, Some("2024-05-10"))>>],
          [b EXCEPT !.task = "Permit", !.taskType = "milestone",
                    !.totalPaymentAmount = -500,
                    !.paymentStages = <<Stage("Fee", 50, Some("2024-05-10")),
                                        Stage("Refund", 50, None)>>],
          [b EXCEPT !.task = "Demo", !.taskType = "labour", !.totalPaymentAmount = 101,
                    !.mainTaskId = Some("task_0"),
                    !.paymentStages = <<Stage("Start", 50, Some("2024-05-10")),
                                        Stage("End", 50, None)>>],
          [b EXCEPT !.task = "Paint", !.taskType = "subcontractor",
                    !.percentageComplete = 100, !.totalPaymentAmount = 1000,
                    !.paymentStages = <<Stage("Materials", 40, Some("TBD"))>>] }

PaymentArgSet ==
    { PaymentArgs(df, dt, tt, ts, rt) :
        df \in {None, Some("2024-05-10")},
        dt \in {None, Some("2024-05-31")},
        tt \in {None, Some("material")},
        ts \in {None, Some("cabinets")},
        rt \in {None, Some("summary"), Some("timeline")} }

InitPay == schedule \in SchedulesOver(PaymentProfiles, MaxPayTasks) /\ Idle

\* a handler that puts each task's stages in date order where they lie
QueryPaymentSchedule_sortsStages ==
    /\ pc = "idle"
    /\ \E a \in PaymentArgSet, up \in SUBSET TiePoints(schedule) :
          /\ op' = "query_payment_schedule"
          /\ args' = a
          /\ emitted' = CollectPayments(schedule, a, up)
          /\ result' = PaymentResult(emitted', a)
    /\ schedule' = [i \in 1..Len(schedule) |->
                       [schedule[i] EXCEPT !.paymentStages = SortByDate(@)]]
    /\ pc' = "returned"
    /\ UNCHANGED <<remote, attempts, visited, stack>>

QueryPaymentSchedule ==
    /\ pc = "idle"
    /\ \E a \in PaymentArgSet, up \in SUBSET TiePoints(schedule) :
          /\ op' = "query_payment_schedule"
          /\ args' = a
          /\ emitted' = CollectPayments(schedule, a, up)
          /\ result' = PaymentResult(emitted', a)
    /\ pc' = "returned"
    /\ UNCHANGED <<schedule, remote, attempts, visited, stack>>

NextPay == QueryPaymentSchedule \/ NextCall

SpecPay == InitPay /\ [][NextPay]_vars

(***************************************************************************)
(* Claims about query_schedule                                             *)
(***************************************************************************)
Returned(o) == pc = "returned" /\ op = o

Statuses == {"not_started", "in_progress", "completed"}

\* the status the data model gives a task, from its percentageComplete
StatusByPercentage(pct) ==
    IF pct >= 100 THEN "completed" ELSE IF pct = 0 THEN "not_started" ELSE "in_progress"

StatusOnlyArgs(st) ==
    ScheduleArgs(None, Some(st), None, None, None, None, None, Some("count"), None, None)

CountWithStatus(st) == execute_query_schedule(schedule, StatusOnlyArgs(st)).count

\* C5: every task has exactly one status, the one its percentageComplete
\* gives (completed at >= 100, not_started at 0, in_progress in between), a
\* status-only count call counts the tasks of that status, and the three
\* status counts sum to totalTasks.
C5_StatusPartition ==
    /\ \A i \in 1..Len(schedule) :
          /\ get_task_status(schedule[i]) \in Statuses
          /\ get_task_status(schedule[i]) = StatusByPercentage(schedule[i].percentageComplete)
    /\ (Returned("query_schedule") /\ \E st \in Statuses : args = StatusOnlyArgs(st)) =>
          /\ result.count = Cardinality({i \in 1..Len(schedule) :
                 StatusByPercentage(schedule[i].percentageComplete) = Val(args.status)})
          /\ result.totalTasks = Len(schedule)
    /\ CountWithStatus("not_started") + CountWithStatus("in_progress")
         + CountWithStatus("completed") = Len(schedule)

\* a status-only count over a schedule whose tasks differ in status
C5_Witness ==
    /\ Returned("query_schedule") /\ args = StatusOnlyArgs("completed")
    /\ Len(schedule) = 2
    /\ schedule[1].percentageComplete = 100 /\ schedule[2].percentageComplete = 99
    /\ result.count = 1

\* what each filter means for one task, stated filter by filter
PassesTaskType(t, a) == a.taskType = None \/ t.taskType = Val(a.taskType)
PassesStatus(t, a) == a.status = None \/ StatusByPercentage(t.percentageComplete) = Val(a.status)
PassesCritical(t, a) == a.isCritical = None \/ t.isCritical = Val(a.isCritical)
PassesMainTask(t, a) == a.isMainTask = None \/ t.isMainTask = Val(a.isMainTask)
PassesSearch(t, a) ==
    a.searchQuery = None \/ match_text(t, a.searchQuery, <<"task", "remarks">>, schedule, TRUE)
DateBounded(a) == a.startDateFrom # None \/ a.startDateTo # None
PassesDateRange(t, a) ==
    DateBounded(a) =>
        /\ parse_date(t.startDate) # None
        /\ a.startDateFrom # None => Val(parse_date(a.startDateFrom)) <= Val(parse_date(t.startDate))
        /\ a.startDateTo # None => Val(parse_date(t.startDate)) <= Val(parse_date(a.startDateTo))

PassesAll(t, a) ==
    /\ PassesTaskType(t, a) /\ PassesStatus(t, a) /\ PassesCritical(t, a)
    /\ PassesMainTask(t, a) /\ PassesSearch(t, a) /\ PassesDateRange(t, a)

\* C6: with returnType=count, count is the number of tasks that satisfy every
\* supplied filter at once (an absent filter excluding nothing), and
\* totalTasks is the schedule length whatever the filters.
C6_FiltersAndCombined ==
    (Returned("query_schedule") /\ args.returnType = Some("count")) =>
        /\ result.count = Cardinality({i \in 1..Len(schedule) : PassesAll(schedule[i], args)})
        /\ result.totalTasks = Len(schedule)

\* taskType=milestone and status=completed over one milestone at 100% and one
\* at 0%: the count is 1
C6_Witness ==
    /\ Returned("query_schedule") /\ args.returnType = Some("count")
    /\ args.taskType = Some("milestone") /\ args.status = Some("completed")
    /\ Len(schedule) = 2
    /\ \A i \in 1..2 : schedule[i].taskType = "milestone"
    /\ schedule[1].percentageComplete = 100 /\ schedule[2].percentageComplete = 0
    /\ result.count = 1

\* the ids of the tasks a list result holds
ListedIds == {result.tasks[k].id : k \in 1..Len(result.tasks)}

OnlyDateFilters(a) ==
    /\ a.taskType = None /\ a.status = None /\ a.isCritical = None
    /\ a.isMainTask = None /\ a.searchQuery = None

\* C7: with a date bound supplied a task passes iff its startDate parses and
\* lies within the bounds, both inclusive; without a date bound a task whose
\* startDate is missing or does not parse is still returned.
C7_DateRangeInclusive ==
    (Returned("query_schedule") /\ args.returnType = None /\ OnlyDateFilters(args)) =>
        \A i \in 1..Len(schedule) :
            (schedule[i].id \in ListedIds) <=>
                IF DateBounded(args)
                THEN /\ parse_date(schedule[i].startDate) # None
                     /\ (args.startDateFrom # None =>
                            Val(parse_date(schedule[i].startDate)) >= 20240502)
                     /\ (args.startDateTo # None =>
                            Val(parse_date(schedule[i].startDate))
                              <= (IF args.startDateTo = Some("2024-05-13") THEN 20240513 ELSE 20240501))
                ELSE TRUE

\* a bounded call that keeps a task starting on the upper bound itself and
\* drops one whose startDate does not parse
C7_Witness ==
    /\ Returned("query_schedule") /\ args.returnType = None /\ OnlyDateFilters(args)
    /\ args.startDateFrom = Some("2024-05-02") /\ args.startDateTo = Some("2024-05-13")
    /\ Len(schedule) = 2
    /\ schedule[1].startDate = Some("2024-05-13T08:00:00Z") /\ schedule[1].id \in ListedIds
    /\ schedule[2].startDate = Some("05/20/2024") /\ schedule[2].id \notin ListedIds

(***************************************************************************)
(* Claims about query_dependencies                                         *)
(***************************************************************************)
\* the iterations a frame's loop can make
LoopLength(frame) ==
    IF DirectionOf(args) = "predecessors"
    THEN Len(schedule[frame.task].dependencies)
    ELSE Len(schedule)

\* the longest loop any activation over this schedule can run
LongestLoop ==
    IF DirectionOf(args) = "predecessors"
    THEN LET lens == {Len(schedule[i].dependencies) : i \in 1..Len(schedule)}
         IN  CHOOSE m \in lens : \A l \in lens : l <= m
    ELSE Len(schedule)

Unvisited == {schedule[i].id : i \in 1..Len(schedule)} \ visited

\* the steps the walk can still take: for every open activation its remaining
\* iterations and its return, and a full activation for every unvisited task
WalkMeasure ==
    SumSeq([k \in 1..Len(stack) |-> LoopLength(stack[k]) - stack[k].next + 2])
      + Cardinality(Unvisited) * (LongestLoop + 1)

\* C1: for every schedule and dependency graph over it, cycles and
\* self-references included, the walk of query_dependencies ends in either
\* direction: while it runs a step is always possible, every step lowers
\* WalkMeasure, which never falls below 0, and so the call returns.
C1_WalkTerminates ==
    /\ [](pc = "walking" => (ENABLED WalkNext /\ WalkMeasure >= 0))
    /\ [][pc = "walking" => WalkMeasure' < WalkMeasure]_vars
    /\ (pc = "walking") ~> (pc = "returned")

\* a chained walk over the cycle task_0 -> task_1 -> task_0 has returned
C1_Witness ==
    /\ Returned("query_dependencies") /\ IncludeChain(args)
    /\ "error" \notin DOMAIN result
    /\ Len(schedule) >= 2
    /\ \E k \in 1..Len(schedule[1].dependencies) :
           ResolvePredecessor(schedule, schedule[1].dependencies[k]) = 2
    /\ \E k \in 1..Len(schedule[2].dependencies) :
           ResolvePredecessor(schedule, schedule[2].dependencies[k]) = 1
    /\ result.targetTask.id = "task_0"
    /\ \E k \in 1..Len(emitted) : emitted[k].chain = "cut"

(***************************************************************************)
(* Claims about query_task_hierarchy                                       *)
(***************************************************************************)
\* the members of an Optional list, none for None
OptMembers(o) == IF o = None THEN {} ELSE {Val(o)[k] : k \in 1..Len(Val(o))}

\* the three linkages of the data model between a main task and a task
LinkedById(main, t) == t.id \in OptMembers(main.subtaskIds)
LinkedByIndex(main, t) == t.index \in OptMembers(main.subtaskIndices)
LinkedByMainTaskId(main, t) == t.mainTaskId = Some(main.id)

HierarchyReturned ==
    Returned("query_task_hierarchy") /\ "subtasks" \in DOMAIN result

\* the main task of the result, by its id (ids are unique in these documents)
ResultMain == schedule[CHOOSE i \in 1..Len(schedule) : schedule[i].id = result.mainTask.id]

C3_NoOperationRaises ==
    pc = "returned" => "raised" \notin DOMAIN result

(***************************************************************************)
(* Claims about lookups that find nothing                                  *)
(***************************************************************************)
\* the fields that carry a lookup's data
DataFields ==
    {"mainTask", "subtasks", "subtaskCount", "totals", "targetTask", "predecessors",
     "successors", "count", "id", "task", "dependencies", "paymentStages"}

IsErrorResult == "error" \in DOMAIN result /\ DOMAIN result \cap DataFields = {}

Supplied(o) == o # None /\ Val(o) # ""

\* no main task has the id asked for or a name matching the search
HierarchyUnresolved ==
    ~ \E i \in 1..Len(schedule) :
        /\ schedule[i].isMainTask
        /\ \/ Supplied(args.mainTaskId) /\ schedule[i].id = Val(args.mainTaskId)
           \/ Supplied(args.mainTaskSearch)
                /\ fuzzy_match(Val(args.mainTaskSearch), schedule[i].task)

\* no task has the id asked for or a context matching the search
DependenciesUnresolved ==
    ~ \E i \in 1..Len(schedule) :
        \/ Supplied(args.taskId) /\ schedule[i].id = Val(args.taskId)
        \/ Supplied(args.taskSearch)
             /\ fuzzy_match(Val(args.taskSearch),
                            build_searchable_context(schedule[i], schedule, TRUE))

\* no task among those searched (the payment-capable ones when only they are
\* asked for) has the id asked for or a context matching the search
DetailsUnresolved ==
    ~ \E i \in 1..Len(schedule) :
        /\ args.onlyPaymentCapable => schedule[i].taskType \in PAYMENT_TASK_TYPES
        /\ \/ Supplied(args.taskId) /\ schedule[i].id = Val(args.taskId)
           \/ Supplied(args.searchQuery)
                /\ fuzzy_match(Val(args.searchQuery),
                               build_searchable_context(schedule[i], schedule, TRUE))

\* hint holds the names of the first tasks of the schedule, ten at most
IsCappedHint(hint) ==
    /\ Len(hint) = (IF Len(schedule) > 10 THEN 10 ELSE Len(schedule))
    /\ \A k \in 1..Len(hint) : hint[k] = schedule[k].task

\* C4: a lookup whose task or main task cannot be resolved, or that is given no
\* reference at all, returns a result with an error field, a hint list of
\* available names (every main-task name for the hierarchy, at most ten task
\* names for dependencies and details) and none of the data fields.
C4_NotFoundIsError ==
    /\ (Returned("query_task_hierarchy") /\ HierarchyUnresolved) =>
          /\ IsErrorResult
          /\ LET mains == {i \in 1..Len(schedule) : schedule[i].isMainTask}
                 hint == result.availableMainTasks
             IN  /\ Len(hint) = Cardinality(mains)
                 /\ \A k \in 1..Len(hint) :
                      \E i \in mains : /\ hint[k] = schedule[i].task
                                       /\ Cardinality({j \in mains : j <= i}) = k
    /\ (Returned("query_dependencies") /\ DependenciesUnresolved) =>
          IsErrorResult /\ IsCappedHint(result.availableTasks)
    /\ (Returned("get_task_details") /\ DetailsUnresolved) =>
          /\ IsErrorResult
          /\ IF args.onlyPaymentCapable
             THEN Len(result.availablePaymentTasks) <= 10
             ELSE IsCappedHint(result.availableTasks)

\* a dependency lookup of an unknown id in a schedule of more than ten tasks
C4_Witness ==
    /\ Returned("query_dependencies") /\ DependenciesUnresolved
    /\ Len(schedule) > 10 /\ args.taskId = Some("task_99")
    /\ "error" \in DOMAIN result /\ Len(result.availableTasks) = 10

(***************************************************************************)
(* Claims about query_payment_schedule                                     *)
(***************************************************************************)
PaymentsReturned == Returned("query_payment_schedule")

\* the task a payment entry belongs to (ids are unique in these documents)
Owner(p) == schedule[CHOOSE i \in 1..Len(schedule) : schedule[i].id = p.taskId]

Amounts(entries) == SumSeq([k \in 1..Len(entries) |-> entries[k].amount])

\* the tasks that have an amount to pay
Paying == {i \in 1..Len(schedule) : schedule[i].totalPaymentAmount > 0}

\* the stages of paying tasks that the filters of the call let through
PayingStages ==
    {<<i, k>> \in Paying \X (1..3) :
        /\ k <= Len(schedule[i].paymentStages)
        /\ TaskSurvives(schedule, i, args)
        /\ StageSurvives(schedule[i].paymentStages[k], args)}

\* C8: no payment entry is emitted for a task whose totalPaymentAmount is not
\* positive, whatever its stages, the filters and the returnType; the count,
\* the grand total, the per-type summary and the timeline are made of the
\* entries of paying tasks only.
C8_NoEntryWithoutAmount ==
    PaymentsReturned =>
        /\ \A k \in 1..Len(emitted) : Owner(emitted[k]).totalPaymentAmount > 0
        /\ Len(emitted) = Cardinality(PayingStages)
        /\ result.totalPayments = Cardinality(PayingStages)
        /\ result.grandTotal = Amounts(emitted)
        /\ "payments" \in DOMAIN result =>
              \A k \in 1..Len(result.payments) :
                  Owner(result.payments[k]).totalPaymentAmount > 0
        /\ "byTaskType" \in DOMAIN result =>
              \A t \in DOMAIN result.byTaskType :
                  \E i \in Paying : schedule[i].taskType = t
        /\ "timeline" \in DOMAIN result =>
              \A m \in DOMAIN result.timeline :
                  \A k \in 1..Len(result.timeline[m].payments) :
                      Owner(result.timeline[m].payments[k]).totalPaymentAmount > 0

\* a summary over a task with an amount and a task with a stage but no amount
C8_Witness ==
    /\ PaymentsReturned /\ Len(schedule) = 2
    /\ schedule[1].totalPaymentAmount = 0 /\ Len(schedule[1].paymentStages) = 1
    /\ schedule[2].totalPaymentAmount = 420000
    /\ args = PaymentArgs(None, None, None, None, Some("summary"))
    /\ result.totalPayments = 2 /\ DOMAIN result.byTaskType = {"material"}

\* the entries emitted for the task at position i
EntriesOf(i) == SelectSeq(emitted, LAMBDA p : p.taskId = schedule[i].id)

PercentagesOf(i) ==
    SumSeq([k \in 1..Len(schedule[i].paymentStages) |-> schedule[i].paymentStages[k].percentage])

\* the paying tasks whose percentages sum to 100 and that lost no stage to a filter
FullyEmitted ==
    {i \in Paying : /\ PercentagesOf(i) = 100
                    /\ Len(EntriesOf(i)) = Len(schedule[i].paymentStages)}

Distance(x, y) == IF x >= y THEN x - y ELSE y - x

\* C9 as stated: each amount is the share rounded to 2 decimals, and the
\* amounts of a task whose percentages sum to 100 sum to exactly its
\* totalPaymentAmount when no filter removes a stage.
C9_StageAmountsSumToTotal ==
    PaymentsReturned =>
        \A i \in FullyEmitted : Amounts(EntriesOf(i)) = schedule[i].totalPaymentAmount

\* C9, amended: each emitted amount is totalPaymentAmount x percentage / 100
\* to the nearest cent; for a task whose percentages sum to 100 and that lost
\* no stage to a filter the amounts sum to its totalPaymentAmount when every
\* share is a whole number of cents, and otherwise differ from it by at most
\* half a cent for each stage.
C9_AmountsRoundedToCents ==
    PaymentsReturned =>
        /\ \A k \in 1..Len(emitted) :
              2 * Distance(100 * emitted[k].amount,
                           Owner(emitted[k]).totalPaymentAmount * emitted[k].percentage) <= 100
        /\ \A i \in FullyEmitted :
              LET t == schedule[i]
              IN  /\ (\A k \in 1..Len(t.paymentStages) :
                         (t.totalPaymentAmount * t.paymentStages[k].percentage) % 100 = 0)
                     => Amounts(EntriesOf(i)) = t.totalPaymentAmount
                  /\ 2 * Distance(Amounts(EntriesOf(i)), t.totalPaymentAmount)
                       <= Len(t.paymentStages)

\* 4200.00 at 25% and 75% lists 1050.00 and 3150.00, beside a task of 0.02
\* at 33%, 33% and 34% whose three amounts of 0.01 sum to 0.03
C9_Witness ==
    /\ PaymentsReturned /\ Len(schedule) = 2 /\ FullyEmitted = {1, 2}
    /\ schedule[1].totalPaymentAmount = 420000
    /\ [k \in 1..2 |-> EntriesOf(1)[k].amount] = <<105000, 315000>>
    /\ schedule[2].totalPaymentAmount = 2
    /\ Amounts(EntriesOf(2)) = 3

RECURSIVE SumOver(_, _, _)
SumOver(S, by, field) ==
    IF S = {} THEN 0
    ELSE LET t == CHOOSE x \in S : TRUE
         IN  by[t][field] + SumOver(S \ {t}, by, field)

\* C10: in a summary, byTaskType[t].count is the number of emitted entries
\* owned by tasks of type t and byTaskType[t].total the sum of their amounts;
\* the counts of all types sum to totalPayments and the totals to grandTotal.
C10_SummaryByTaskType ==
    (PaymentsReturned /\ "byTaskType" \in DOMAIN result) =>
        LET by == result.byTaskType
            owned(t) == SelectSeq(emitted, LAMBDA p : Owner(p).taskType = t)
        IN  /\ DOMAIN by = {Owner(emitted[k]).taskType : k \in 1..Len(emitted)}
            /\ \A t \in DOMAIN by : /\ by[t].count = Len(owned(t))
                                    /\ by[t].total = Amounts(owned(t))
            /\ SumOver(DOMAIN by, by, "count") = result.totalPayments
            /\ SumOver(DOMAIN by, by, "total") = result.grandTotal

\* two material tasks of two stages each, 4200.00 and 9000.00, summarised as
\* four payments of 13200.00 in all
C10_Witness ==
    /\ PaymentsReturned /\ Len(schedule) = 2
    /\ args = PaymentArgs(None, None, Some("material"), None, Some("summary"))
    /\ result.byTaskType = [material |-> [count |-> 4, total |-> 1320000]]
    /\ result.totalPayments = 4 /\ result.grandTotal = 1320000

\* a date bound was supplied and parses
BoundSupplied == parse_date(args.dateFrom) # None \/ parse_date(args.dateTo) # None

\* C11: with dateFrom and/or dateTo supplied, every emitted payment entry has
\* an effectiveDate within the bounds; no entry outside them, and no entry
\* without an effective date, is emitted.
C11_EntriesWithinBounds ==
    (PaymentsReturned /\ BoundSupplied) =>
        \A k \in 1..Len(emitted) :
            LET d == parse_date(emitted[k].effectiveDate)
            IN  /\ d # None
                /\ parse_date(args.dateFrom) # None => Val(parse_date(args.dateFrom)) <= Val(d)
                /\ parse_date(args.dateTo) # None => Val(d) <= Val(parse_date(args.dateTo))

\* C12: the payments listed are in non-decreasing order of effectiveDate, and
\* every payment without an effectiveDate comes after every dated payment
\* (dates being ISO dates earlier than 9999-12-31, the key of the undated).
C12_SortedByDate ==
    (PaymentsReturned /\ "payments" \in DOMAIN result) =>
        \A k, l \in 1..Len(result.payments) :
            k < l =>
                LET dk == parse_date(result.payments[k].effectiveDate)
                    dl == parse_date(result.payments[l].effectiveDate)
                IN  /\ (dk # None /\ dl # None) => Val(dk) <= Val(dl)
                    /\ ~ (/\ ~TruthyStr(result.payments[k].effectiveDate)
                          /\ dl # None /\ Val(dl) < 99991231)

\* the stages of two tasks listed in date order, not in schedule order, the
\* two without a date last
C12_Witness ==
    /\ PaymentsReturned /\ Len(schedule) = 2
    /\ args = PaymentArgs(None, None, None, None, None)
    /\ [k \in 1..Len(result.payments) |-> result.payments[k].taskId]
         = <<"task_0", "task_1", "task_0", "task_0", "task_1">>
    /\ [k \in 1..Len(result.payments) |-> result.payments[k].effectiveDate]
         = <<Some("2024-05-01"), Some("2024-05-10"), Some("2024-05-20"), None, None>>

(***************************************************************************)
(* Claims about the entries of query_dependencies                          *)
(***************************************************************************)
\* a dependency walk returned its lists (the target was found)
WalkReturned == Returned("query_dependencies") /\ "targetTask" \in DOMAIN result

\* the position of the target (ids are unique in these documents)
TargetPos == CHOOSE i \in 1..Len(schedule) : schedule[i].id = result.targetTask.id

\* the entries of the top-level list, in order
TopEntries == SelectSeq(emitted, LAMBDA e : e.depth = 1)

\* the task a dependency stands for in the data model: the one whose id is
\* predecessorId or, failing that, the one whose index is predecessorTaskId;
\* 0 when there is neither
ModelPredecessor(dep) ==
    LET by_id == {i \in 1..Len(schedule) : dep.predecessorId = Some(schedule[i].id)}
        by_index == {i \in 1..Len(schedule) : dep.predecessorTaskId = Str(schedule[i].index)}
    IN  IF by_id # {} THEN CHOOSE i \in by_id : TRUE
        ELSE IF by_index # {} THEN CHOOSE i \in by_index : TRUE
        ELSE 0

\* C13: with direction=predecessors every dependency of the target whose
\* predecessorId matches a task id or, failing that, whose predecessorTaskId
\* matches a task's index is emitted as that task.
C13_PredecessorsResolve ==
    (WalkReturned /\ DirectionOf(args) = "predecessors") =>
        LET deps == schedule[TargetPos].dependencies
            resolving == SelectSeq([k \in 1..Len(deps) |-> k],
                                   LAMBDA k : ModelPredecessor(deps[k]) # 0)
        IN  [k \in 1..Len(TopEntries) |-> TopEntries[k].task]
              = [k \in 1..Len(resolving) |-> ModelPredecessor(deps[resolving[k]])]

\* C14: with direction=successors a task is emitted as a successor of the
\* target iff one of its dependencies names the target, by predecessorId equal
\* to the target's id or by predecessorTaskId equal to the target's index, and
\* it is emitted once however many of its dependencies do.
C14_SuccessorsNameTarget ==
    (WalkReturned /\ DirectionOf(args) = "successors") =>
        LET target == schedule[TargetPos]
            naming == {i \in 1..Len(schedule) :
                         \E k \in 1..Len(schedule[i].dependencies) :
                             \/ schedule[i].dependencies[k].predecessorId = Some(target.id)
                             \/ schedule[i].dependencies[k].predecessorTaskId = Str(target.index)}
        IN  /\ {TopEntries[k].task : k \in 1..Len(TopEntries)} = naming
            /\ Len(TopEntries) = Cardinality(naming)

\* the key the walker looks a dependency up by, and the task it finds: by id
\* first, by index otherwise; 0 when no task has that key
LookedUp(dep) ==
    LET key == IF dep.predecessorId \in {None, Some("")} THEN dep.predecessorTaskId
               ELSE Val(dep.predecessorId)
        by_id == {i \in 1..Len(schedule) : schedule[i].id = key}
        by_index == {i \in 1..Len(schedule) : Str(schedule[i].index) = key}
    IN  IF by_id # {} THEN CHOOSE i \in by_id : TRUE
        ELSE IF by_index # {} THEN CHOOSE i \in by_index : TRUE
        ELSE 0

\* C15: with direction=predecessors and without includeChain the result holds
\* one entry for each dependency of the target that resolves to a task, in
\* dependency order, with that dependency's type and lag and no nested list,
\* and count is the number of entries.
C15_DirectPredecessors ==
    (WalkReturned /\ DirectionOf(args) = "predecessors" /\ ~IncludeChain(args)) =>
        LET deps == schedule[TargetPos].dependencies
            resolving == SelectSeq([k \in 1..Len(deps) |-> k],
                                   LAMBDA k : LookedUp(deps[k]) # 0)
        IN  /\ Len(result.predecessors) = Len(resolving)
            /\ \A k \in 1..Len(resolving) :
                  /\ result.predecessors[k].task = LookedUp(deps[resolving[k]])
                  /\ result.predecessors[k].dependencyType = deps[resolving[k]].type
                  /\ result.predecessors[k].lag = deps[resolving[k]].lag
                  /\ result.predecessors[k].chain = "absent"
            /\ result.count = Len(result.predecessors)
            /\ "successors" \notin DOMAIN result

\* two predecessors of task_0, the second start-to-start with a lag of 2
C15_Witness ==
    /\ WalkReturned /\ DirectionOf(args) = "predecessors" /\ ~IncludeChain(args)
    /\ result.targetTask.id = "task_0" /\ result.count = 2
    /\ result.predecessors[1].task = 2 /\ result.predecessors[1].dependencyType = "FS"
    /\ result.predecessors[2].task = 3 /\ result.predecessors[2].dependencyType = "SS"
    /\ result.predecessors[2].lag = 2

\* the target of the walk in progress or just returned
WalkTarget == IF pc = "walking" THEN result.target ELSE TargetPos

\* C16 as stated: no task appears in more than one node of the tree returned
\* with includeChain=true.
C16_NoTaskTwice ==
    (WalkReturned /\ IncludeChain(args)) =>
        \A k, l \in 1..Len(emitted) : emitted[k].task = emitted[l].task => k = l

\* C16, amended: in a chained walk no task is expanded more than once and the
\* target is never expanded again; a task reached again is a node with an
\* empty nested list, so a task may appear in several nodes but its
\* dependencies are listed under one of them at most.
C16_NoTaskExpandedTwice ==
    ((pc = "walking" \/ WalkReturned) /\ IncludeChain(args)) =>
        /\ \A k, l \in 1..Len(emitted) :
              (/\ emitted[k].chain = "expanded" /\ emitted[l].chain = "expanded"
               /\ emitted[k].task = emitted[l].task) => k = l
        /\ \A k \in 1..Len(emitted) :
              /\ emitted[k].chain \in {"expanded", "cut"}
              /\ emitted[k].chain = "expanded" => emitted[k].task # WalkTarget
              /\ emitted[k].chain = "cut" =>
                    \/ emitted[k].task = WalkTarget
                    \/ \E l \in 1..(k - 1) : /\ emitted[l].task = emitted[k].task
                                             /\ emitted[l].chain = "expanded"

\* task_2 is a predecessor of task_1 (twice, by id and by index) and of
\* task_0: it is expanded under task_1 once and appears again, cut short,
\* under task_1 and under task_0
C16_Witness ==
    /\ WalkReturned /\ IncludeChain(args) /\ DirectionOf(args) = "predecessors"
    /\ result.targetTask.id = "task_0"
    /\ [k \in 1..Len(emitted) |-> <<emitted[k].task, emitted[k].depth, emitted[k].chain>>]
         = << <<2, 1, "expanded">>, <<3, 2, "expanded">>, <<3, 2, "cut">>, <<3, 1, "cut">> >>

(***************************************************************************)
(* Claims about the choice of the main task                                *)
(***************************************************************************)
\* the main tasks with the id asked for, and those whose name matches the search
MainsById ==
    {i \in 1..Len(schedule) :
        /\ schedule[i].isMainTask
        /\ Supplied(args.mainTaskId) /\ schedule[i].id = Val(args.mainTaskId)}

MainsByName ==
    {i \in 1..Len(schedule) :
        /\ schedule[i].isMainTask
        /\ Supplied(args.mainTaskSearch)
        /\ fuzzy_match(Val(args.mainTaskSearch), schedule[i].task)}

\* C17: the main task is the task with the id mainTaskId when that task has
\* isMainTask true; otherwise the first task in schedule order with
\* isMainTask true whose name matches mainTaskSearch; a task with isMainTask
\* false is never the mainTask returned, whatever its id.
C17_MainTaskSelection ==
    Returned("query_task_hierarchy") =>
        /\ "mainTask" \in DOMAIN result => result.mainTask.isMainTask
        /\ MainsById # {} =>
              /\ "mainTask" \in DOMAIN result
              /\ result.mainTask.id = Val(args.mainTaskId)
        /\ (MainsById = {} /\ MainsByName # {}) =>
              /\ "mainTask" \in DOMAIN result
              /\ \E i \in MainsByName : /\ result.mainTask.id = schedule[i].id
                                        /\ \A j \in MainsByName : i <= j
        /\ (MainsById = {} /\ MainsByName = {}) => "mainTask" \notin DOMAIN result

\* mainTaskId is the id of a task that is not a main task: the main task
\* returned is the first of the two whose names match the search
C17_Witness ==
    /\ Returned("query_task_hierarchy")
    /\ args.mainTaskId = Some("task_1") /\ args.mainTaskSearch = Some("phase 0")
    /\ Len(schedule) = 11 /\ ~schedule[2].isMainTask
    /\ MainsByName = {1, 11} /\ result.mainTask.id = "task_0"

(***************************************************************************)
(* Documents and calls for the text filters: the searchQuery of            *)
(* query_schedule and the taskSearch of query_payment_schedule and of      *)
(* query_dependencies                                                      *)
(***************************************************************************)
\* the longest schedule of the text-filter documents
MaxTextTasks == 2

\* a material task, a labour task that follows task_0, and an unnamed subtask
\* of task_0; each has one payment stage
TextProfiles ==
    LET b == [BlankTask(0) EXCEPT !.paymentStages = <<Stage("Deposit", 100, Some("2024-05-01"))>>]
    IN  { [b EXCEPT !.task = "Cabinets", !.taskType = "material", !.isMainTask = TRUE,
                    !.totalPaymentAmount = 1000],
          [b EXCEPT !.task = "Install", !.remarks = "kitchen", !.totalPaymentAmount = 2000,
                    !.dependencies = <<Dep(Some("task_0"), "0", "FS", 0)>>],
          [b EXCEPT !.taskType = "subcontractor", !.mainTaskId = Some("task_0"),
                    !.totalPaymentAmount = 500] }

\* the text queries: absent, the wildcards in both letter cases, and words
\* that occur in a name, in remarks, in a taskType and in an id
TextQueries ==
    {None, Some(""), Some("all"), Some("ALL"), Some("*"),
     Some("cabinets"), Some("kitchen"), Some("material"), Some("task 0")}

TextScheduleArgSet ==
    { ScheduleArgs(None, None, None, None, q, None, None, None, None, None) : q \in TextQueries }

TextPaymentArgSet == { PaymentArgs(None, None, None, q, None) : q \in TextQueries }

TextDependencyArgSet ==
    { DependencyArgs(None, q, dir, chain) :
        q \in TextQueries, dir \in {None, Some("successors")}, chain \in {None, Some(TRUE)} }

InitText == schedule \in SchedulesOver(TextProfiles, MaxTextTasks) /\ Idle

TextQuerySchedule ==
    /\ pc = "idle"
    /\ \E a \in TextScheduleArgSet :
          /\ op' = "query_schedule"
          /\ args' = a
          /\ result' = execute_query_schedule(schedule, a)
    /\ pc' = "returned"
    /\ UNCHANGED <<schedule, remote, attempts, visited, stack, emitted>>

TextQueryPayments ==
    /\ pc = "idle"
    /\ \E a \in TextPaymentArgSet, up \in SUBSET TiePoints(schedule) :
          /\ op' = "query_payment_schedule"
          /\ args' = a
          /\ emitted' = CollectPayments(schedule, a, up)
          /\ result' = PaymentResult(emitted', a)
    /\ pc' = "returned"
    /\ UNCHANGED <<schedule, remote, attempts, visited, stack>>

TextQueryDependencies == \E a \in TextDependencyArgSet : QueryDependencies(a)

NextText ==
    TextQuerySchedule \/ TextQueryPayments \/ TextQueryDependencies \/ WalkNext \/ NextCall

SpecText == InitText /\ [][NextText]_vars

(***************************************************************************)
(* C18.  A text filter whose query is empty, "all" or "*" in any letter    *)
(* case excludes no item: query_schedule lists every task, every paying    *)
(* task has its payments in the result of query_payment_schedule, and      *)
(* query_dependencies, searching by "all" or "*", takes the first task of  *)
(* the schedule as its target.                                             *)
(***************************************************************************)
\* the queries the text matcher is to treat as 'no filter'
IsWildcard(q) == q = None \/ StrLower(Val(q)) \in {"", "all", "*"}

\* the ids of the tasks that have an entry in the payments collected
PaidTaskIds == {emitted[k].taskId : k \in 1..Len(emitted)}

\* C18: a wildcard query excludes no item in any of the three operations
C18_WildcardMatchesAll ==
    /\ (Returned("query_schedule") /\ IsWildcard(args.searchQuery))
          => result.matchedCount = Len(schedule)
    /\ (Returned("query_payment_schedule") /\ IsWildcard(args.taskSearch))
          => \A i \in 1..Len(schedule) : schedule[i].id \in PaidTaskIds
    /\ (op = "query_dependencies" /\ TruthyStr(args.taskSearch)
           /\ IsWildcard(args.taskSearch) /\ schedule # <<>>)
          => /\ "error" \notin DOMAIN result
             /\ pc = "walking" => result.target = 1
             /\ WalkReturned => result.targetTask.id = schedule[1].id

(***************************************************************************)
(* Inputs and the call for fuzzy_match alone                               *)
(***************************************************************************)
\* queries: words, words in another order, joined and spaced spellings,
\* separators and letter case, a word that occurs nowhere, queries made of
\* punctuation only, and the empty query
MatchQueries ==
    {"", "?", "--", "cabinet", "labor cabinet", "Install Labor", "cleanup", "clean up",
     "CLEAN_UP", "up clean", "cabinet painting", "painting cabinet", "plumbing"}

\* texts: empty, blank, punctuation only, and names with separators
MatchTexts ==
    {"", " ", "!!", "Cabinet_Install-Labor", "cabinet install labor", "clean up",
     "Clean-Up crew", "cabinet prep painting labor"}

InitMatch ==
    /\ schedule = <<>> /\ op = "none" /\ result = <<>>
    /\ pc = "idle" /\ visited = {} /\ stack = <<>> /\ emitted = <<>>
    /\ remote = None /\ attempts = <<>>
    /\ args \in [query : MatchQueries, text : MatchTexts]

FuzzyMatch ==
    /\ pc = "idle"
    /\ op' = "fuzzy_match"
    /\ result' = [matched |-> fuzzy_match(args.query, args.text)]
    /\ pc' = "returned"
    /\ UNCHANGED <<schedule, remote, attempts, args, visited, stack, emitted>>

NextMatch == FuzzyMatch

SpecMatch == InitMatch /\ [][NextMatch]_vars

(***************************************************************************)
(* C19.  For a query that is not a wildcard, fuzzy_match(query, text) is   *)
(* true exactly when, on the normalized query and text, the query is a     *)
(* substring of the text, or every token of the query is a substring of    *)
(* the text, or the query without its spaces is a substring of the text    *)
(* without its spaces, or the query's tokens occur in the text in order.   *)
(***************************************************************************)
\* the four rules, on the normalized strings
MatchesByRule(query, text) ==
    LET nq == normalize_text(query)
        nt == normalize_text(text)
        tokens == SplitWords(nq, "")
    IN  \/ Contains(nt, nq)
        \/ \A k \in 1..Len(tokens) : Contains(nt, tokens[k])
        \/ Contains(RemoveSpaces(nt), RemoveSpaces(nq))
        \/ TokensInOrder(tokens, nt)

\* C19: the result of fuzzy_match is that of the four rules
C19_MatchExactlyByRules ==
    (Returned("fuzzy_match") /\ ~IsWildcard(Some(args.query)))
        => (result.matched <=> MatchesByRule(args.query, args.text))

(***************************************************************************)
(* C20.  The searchQuery filter of query_schedule matches a task only      *)
(* through its task name, its remarks or its parent task's name: a task    *)
(* listed for a searchQuery has a match in the text made of these three,   *)
(* whatever its id and taskType are.                                       *)
(***************************************************************************)
\* the task name, the remarks and (for a subtask) the parent's name, with and
\* without "under", of the task at position i
NamedText(i) ==
    LET task == schedule[i]
        p == ParentPos(task, schedule)
        parent == IF (TruthyStr(task.mainTaskId) \/ task.mainTaskIndex # None)
                     /\ p # 0 /\ schedule[p].task # ""
                  THEN <<"under " \o schedule[p].task, schedule[p].task>>
                  ELSE <<>>
    IN  JoinSpace(StrParts(task, <<"task", "remarks">>) \o parent)

\* C20: every task listed for a searchQuery matches it by name, remarks or
\* parent name
C20_SearchByNameRemarksParent ==
    (Returned("query_schedule") /\ TruthyStr(args.searchQuery) /\ ~IsWildcard(args.searchQuery))
        => \A i \in 1..Len(schedule) :
              schedule[i].id \in ListedIds
                  => fuzzy_match(Strip(Val(args.searchQuery)), NamedText(i))

(***************************************************************************)
(* Documents and calls for the sum and list results of query_schedule:     *)
(* schedules longer than the default limit                                 *)
(***************************************************************************)
\* the longest schedule of the aggregation documents
MaxAggTasks == 11

\* the task at position k: hours k, consumed k mod 3, an amount of k
\* hundred cents; every c-th task is critical and every third one a material
\* task with a start date and remarks
AggTask(k, c) ==
    WithIdentity(
      [BlankTask(0) EXCEPT
         !.task = "Task " \o Str(k - 1),
         !.hours = k, !.consumed = k % 3, !.totalPaymentAmount = 100 * k,
         !.isCritical = (k % c = 0),
         !.taskType = IF k % 3 = 0 THEN "material" ELSE "labour",
         !.startDate = IF k % 3 = 0 THEN Some("2024-05-01") ELSE None,
         !.remarks = IF k % 3 = 0 THEN "on site" ELSE ""], k)

AggSchedules == {[k \in 1..n |-> AggTask(k, c)] : n \in 0..MaxAggTasks, c \in 1..2}

\* sum calls: the default field, declared numeric fields, a field no task
\* has, and fields whose values are text, a date or a list
SumArgSet ==
    { ScheduleArgs(tt, None, cr, None, None, None, None, Some("sum"), None, f) :
        tt \in {None, Some("material")},
        cr \in {None, Some(TRUE)},
        f \in {None, Some("hours"), Some("consumed"), Some("totalPaymentAmount"),
               Some("cost"), Some("remarks"), Some("startDate"), Some("dependencies")} }

\* list calls: no limit, and limits below, at and above the number of tasks
ListArgSet ==
    { ScheduleArgs(tt, None, cr, None, None, None, None, rt, limit, None) :
        tt \in {None, Some("material")},
        cr \in {None, Some(TRUE)},
        rt \in {None, Some("list")},
        limit \in {None, Some(-1), Some(0), Some(3), Some(10), Some(12)} }

InitAgg == schedule \in AggSchedules /\ Idle

SumSchedule ==
    /\ pc = "idle"
    /\ \E a \in SumArgSet :
          /\ op' = "query_schedule"
          /\ args' = a
          /\ result' = execute_query_schedule(schedule, a)
    /\ pc' = "returned"
    /\ UNCHANGED <<schedule, remote, attempts, visited, stack, emitted>>

ListSchedule ==
    /\ pc = "idle"
    /\ \E a \in ListArgSet :
          /\ op' = "query_schedule"
          /\ args' = a
          /\ result' = execute_query_schedule(schedule, a)
    /\ pc' = "returned"
    /\ UNCHANGED <<schedule, remote, attempts, visited, stack, emitted>>

NextAgg == SumSchedule \/ ListSchedule \/ NextCall

SpecAgg == InitAgg /\ [][NextAgg]_vars

(***************************************************************************)
(* C21.  With returnType=sum, query_schedule returns the sum of the named  *)
(* field (hours when fieldToSum is absent) over exactly the tasks passing  *)
(* all filters, a missing or non-numeric value contributing 0; for a field *)
(* no task has the sum is 0, there is no error, and matchedTasks is still  *)
(* the number of passing tasks.                                            *)
(***************************************************************************)
\* the positions of the tasks that pass every filter of the call
Passing == {i \in 1..Len(schedule) : PassesAll(schedule[i], args)}

\* what the task at position i adds to the sum of a field: its number, and 0
\* for a field it has not or whose value is no number
NumberAt(i, field) ==
    IF field \in {"hours", "consumed", "totalPaymentAmount"} THEN schedule[i][field] ELSE 0

\* the sum of a field over a set of positions
RECURSIVE SumOfSet(_, _)
SumOfSet(set, field) ==
    IF set = {} THEN 0
    ELSE LET i == CHOOSE x \in set : TRUE
         IN  NumberAt(i, field) + SumOfSet(set \ {i}, field)

ListReturned == Returned("query_schedule") /\ args.returnType \in {None, Some("list")}

\* the limit of the call, 10 when absent
LimitOf(a) == IF a.limit = None THEN 10 ELSE Val(a.limit)

\* the passing tasks in schedule order
PassingInOrder == SelectSeq(AllPositions(schedule), LAMBDA i : i \in Passing)

\* C22: the list holds the first passing tasks, no more of them than limit
\* (none for a limit below 0)
C22_ListAtMostLimit ==
    ListReturned =>
        /\ result.matchedCount = Cardinality(Passing)
        /\ result.returnedCount = Len(result.tasks)
        /\ result.returnedCount <= Max(LimitOf(args), 0)
        /\ \A k \in 1..Len(result.tasks) : result.tasks[k].id = schedule[PassingInOrder[k]].id

(***************************************************************************)
(* The comparison tools.  A value of the service's JSON that the code      *)
(* coerces is absent, a number or a text.  Amounts and hours are whole     *)
(* numbers; progress and percentageUsed, which the code rounds to one      *)
(* decimal, are held in tenths of a percent.                               *)
(***************************************************************************)
NoValue == [kind |-> "none"]
Num(n) == [kind |-> "num", num |-> n]
Text(t) == [kind |-> "text", text |-> t]

ensure_float(value) ==
    IF value.kind = "none" THEN 0
    ELSE IF value.kind = "num" THEN value.num
    ELSE IF value.text # "" /\ AllDigits(value.text) THEN ToNumber(value.text)
    ELSE 0

\* the outcomes of one outbound request
FetchOutcomes == {"ok", "empty", "status_500", "timeout", "client_error"}

\* a fetch that reads the body whatever the status
fetch_comparison_from_api_anyStatus(outcome, data) ==
    IF outcome \in {"ok", "status_500"} THEN Some(data)
    ELSE IF outcome = "empty" THEN Some(<<>>)
    ELSE None

\* fetch_comparison_from_api: the JSON of a 200 response, None otherwise
fetch_comparison_from_api(outcome, data) ==
    IF outcome = "ok" THEN Some(data)
    ELSE IF outcome = "empty" THEN Some(<<>>)
    ELSE None

\* `not api_data`
NoApiData(api_data) == api_data = None \/ Val(api_data) = <<>>

\* a percentage that divides whatever the budget is (a budget of 0 dividing
\* by 1)
PercentTenths_noGuard(consumed, budgeted, tieUp) ==
    LET b == IF budgeted = 0 THEN 1 ELSE budgeted
    IN  (consumed * 1000) \div b

\* round((consumed / budgeted * 100) if budgeted > 0 else 0, 1), in tenths
PercentTenths(consumed, budgeted, tieUp) ==
    IF budgeted > 0
    THEN LET q == (consumed * 1000) \div budgeted
             r == (consumed * 1000) % budgeted
         IN  IF 2 * r > budgeted \/ (2 * r = budgeted /\ tieUp) THEN q + 1 ELSE q
    ELSE 0

\* a row of the service: tags is None when the row has no tag list
RawRow(costCode, budgeted, consumed, rowType, fromChangeOrder, tags) ==
    [costCode |-> costCode, budgetedAmount |-> budgeted, consumedAmount |-> consumed,
     rowType |-> rowType, fromChangeOrder |-> fromChangeOrder, tags |-> tags]

InSeq(x, seq) == \E k \in 1..Len(seq) : seq[k] = x

\* one iteration of the loop of parse_comparison_rows
parse_comparison_row(row, tieUp) ==
    LET budgeted == ensure_float(row.budgetedAmount)
        consumed == ensure_float(row.consumedAmount)
        tags == IF row.tags # None /\ Val(row.tags) # <<>> THEN Val(row.tags)
                ELSE (IF row.fromChangeOrder THEN <<"co">> ELSE <<"est">>)
                     \o (IF row.rowType # None /\ StrLower(Val(row.rowType)) = "allowance"
                         THEN <<"alw">> ELSE <<>>)
    IN  [costCode |-> row.costCode,
         budgetedAmount |-> budgeted, consumedAmount |-> consumed,
         differenceAmount |-> budgeted - consumed,
         progress |-> PercentTenths(consumed, budgeted, tieUp),
         rowType |-> row.rowType, fromChangeOrder |-> row.fromChangeOrder,
         tags |-> tags, tagAmounts |-> <<>>, consumedTagAmounts |-> <<>>,
         isOverBudget |-> consumed > budgeted,
         isAllowance |-> InSeq("alw", tags), isChangeOrder |-> InSeq("co", tags)]

\* parse_comparison_rows over the list of one category; up holds the
\* positions whose progress, half-way between two tenths, is rounded up
parse_comparison_rows(rows_data, cat, up) ==
    [k \in 1..Len(rows_data) |-> parse_comparison_row(rows_data[k], <<cat, k>> \in up)]

\* format_comparison_row_summary of a normalized row
format_comparison_row_summary(row, tieUp) ==
    [costCode |-> row.costCode,
     budgetedAmount |-> row.budgetedAmount, consumedAmount |-> row.consumedAmount,
     differenceAmount |-> row.budgetedAmount - row.consumedAmount,
     progress |-> PercentTenths(row.consumedAmount, row.budgetedAmount, tieUp),
     isOverBudget |-> row.consumedAmount > row.budgetedAmount,
     tags |-> row.tags,
     isAllowance |-> InSeq("alw", row.tags), isChangeOrder |-> InSeq("co", row.tags)]

\* the categories of the details, in the order the code reads them
Categories == <<"labour", "material", "subcontractor", "other">>

\* the positions <<category, k>> of the rows of the details
RowPositions(details) ==
    UNION {{<<Categories[c], k>> : k \in 1..Len(details[Categories[c]])} : c \in 1..4}

\* the positions of the rows whose progress is half-way between two tenths
RowTiePoints(data) ==
    {p \in RowPositions(data.details) :
        LET row == data.details[p[1]][p[2]]
            b == ensure_float(row.budgetedAmount)
        IN  b > 0 /\ 2 * ((ensure_float(row.consumedAmount) * 1000) % b) = b}

\* the summary of one money category, coerced
CoercedAmounts(s) ==
    [budgetedAmount |-> ensure_float(s.budgetedAmount),
     consumedAmount |-> ensure_float(s.consumedAmount),
     percentageUsed |-> ensure_float(s.percentageUsed)]

FetchError(job_id) ==
    [error |-> "Failed to fetch comparison data from API. The service may be unavailable.",
     jobId |-> job_id,
     suggestion |-> "Try again later or check if the job has comparison data available."]

\* the job the handlers are called for
CurrentJob == "job_1"

\* execute_get_comparison_data on what the fetch returned
execute_get_comparison_data(api_data, a, up) ==
    LET target_job_id == IF TruthyStr(a.jobId) THEN Val(a.jobId) ELSE CurrentJob
    IN  IF NoApiData(api_data) THEN FetchError(target_job_id)
        ELSE LET summary == Val(api_data).summary
                 details == Val(api_data).details
                 rows == [c \in {"labour", "material", "subcontractor", "other"} |->
                             parse_comparison_rows(details[c], c, up)]
             IN  [summary |->
                     [labour |-> [budgetedHours |-> ensure_float(summary.labour.budgetedHours),
                                  actualHours |-> ensure_float(summary.labour.actualHours),
                                  percentageUsed |-> ensure_float(summary.labour.percentageUsed)],
                      material |-> CoercedAmounts(summary.material),
                      subcontractor |-> CoercedAmounts(summary.subcontractor),
                      other |-> CoercedAmounts(summary.other)],
                  details |-> rows,
                  counts |-> [labour |-> Len(rows.labour), material |-> Len(rows.material),
                              subcontractor |-> Len(rows.subcontractor),
                              other |-> Len(rows.other),
                              total |-> Len(rows.labour) + Len(rows.material)
                                        + Len(rows.subcontractor) + Len(rows.other)],
                  jobId |-> target_job_id]

RowsArgs(category, tag, costCodeSearch, overBudgetOnly, returnType, limit) ==
    [category |-> category, tag |-> tag, costCodeSearch |-> costCodeSearch,
     overBudgetOnly |-> overBudgetOnly, returnType |-> returnType, limit |-> limit]

\* the positions of one category, in order
PositionsOf(details, cat) == [k \in 1..Len(details[cat]) |-> <<cat, k>>]

RowAt(details, p) == details[p[1]][p[2]]

\* an unknown category that selects nothing
SelectedRows_unknownEmpty(details, category) ==
    IF category = "all"
    THEN PositionsOf(details, "labour") \o PositionsOf(details, "material")
         \o PositionsOf(details, "subcontractor") \o PositionsOf(details, "other")
    ELSE IF category = "allowance"
    THEN SelectSeq(PositionsOf(details, "labour") \o PositionsOf(details, "material")
                   \o PositionsOf(details, "subcontractor") \o PositionsOf(details, "other"),
                   LAMBDA p : RowAt(details, p).isAllowance)
    ELSE IF category \in DOMAIN details THEN PositionsOf(details, category)
    ELSE <<>>

\* all_rows: the rows the category selects, as positions in the details
SelectedRows(details, category) ==
    IF category = "all"
    THEN PositionsOf(details, "labour") \o PositionsOf(details, "material")
         \o PositionsOf(details, "subcontractor") \o PositionsOf(details, "other")
    ELSE IF category = "allowance"
    THEN SelectSeq(PositionsOf(details, "labour") \o PositionsOf(details, "material")
                   \o PositionsOf(details, "subcontractor") \o PositionsOf(details, "other"),
                   LAMBDA p : RowAt(details, p).isAllowance)
    ELSE IF category \in DOMAIN details THEN PositionsOf(details, category)
    ELSE PositionsOf(details, "other")

\* the tag, cost code and over-budget filters, each narrowing the last
FilteredRows(details, all_rows, a) ==
    LET by_tag ==
            IF TruthyStr(a.tag)
            THEN SelectSeq(all_rows, LAMBDA p :
                     \E k \in 1..Len(RowAt(details, p).tags) :
                         StrLower(RowAt(details, p).tags[k]) = StrLower(Val(a.tag)))
            ELSE all_rows
        by_code ==
            IF TruthyStr(a.costCodeSearch)
            THEN SelectSeq(by_tag, LAMBDA p :
                     fuzzy_match(Val(a.costCodeSearch), RowAt(details, p).costCode))
            ELSE by_tag
    IN  IF a.overBudgetOnly = Some(TRUE)
        THEN SelectSeq(by_code, LAMBDA p : RowAt(details, p).isOverBudget)
        ELSE by_code

\* {k: v for k, v in args.items() if v is not None and k not in ["returnType", "limit"]}
RowsFiltersApplied(a) ==
    [k \in {f \in {"category", "tag", "costCodeSearch", "overBudgetOnly"} : a[f] # None}
        |-> Val(a[k])]

\* the category the summary loop finds for a row: the first category whose
\* list holds a row equal to it
CategoryOfRow(details, p) ==
    LET holding == {c \in 1..4 : InSeq(RowAt(details, p), details[Categories[c]])}
    IN  IF holding = {} THEN "other"
        ELSE Categories[CHOOSE c \in holding : \A d \in holding : c <= d]

\* by_category of the summary
RowsByCategory(details, filtered) ==
    LET cats == {CategoryOfRow(details, filtered[k]) : k \in 1..Len(filtered)}
    IN  [c \in cats |->
            LET mine == SelectSeq(filtered, LAMBDA p : CategoryOfRow(details, p) = c)
            IN  [count |-> Len(mine),
                 budgetedTotal |-> SumSeq([k \in 1..Len(mine) |->
                                      RowAt(details, mine[k]).budgetedAmount]),
                 consumedTotal |-> SumSeq([k \in 1..Len(mine) |->
                                      RowAt(details, mine[k]).consumedAmount]),
                 overBudgetCount |-> Len(SelectSeq(mine, LAMBDA p :
                                      RowAt(details, p).isOverBudget))]]

\* the sum of f over the elements of a finite set of categories
RECURSIVE TotalOf(_, _)
TotalOf(by_category, field) ==
    IF DOMAIN by_category = {} THEN 0
    ELSE LET c == CHOOSE x \in DOMAIN by_category : TRUE
         IN  by_category[c][field]
             + TotalOf([d \in DOMAIN by_category \ {c} |-> by_category[d]], field)

\* execute_query_comparison_rows on the result of execute_get_comparison_data
execute_query_comparison_rows(full_data, a) ==
    IF "error" \in DOMAIN full_data THEN full_data
    ELSE LET category == IF a.category = None THEN "all" ELSE StrLower(Val(a.category))
             return_type == IF a.returnType = None THEN "list" ELSE Val(a.returnType)
             limit == IF a.limit = None THEN 20 ELSE Val(a.limit)
             details == full_data.details
             all_rows == SelectedRows(details, category)
             filtered == FilteredRows(details, all_rows, a)
         IN  IF return_type = "count"
             THEN [count |-> Len(filtered), totalRows |-> Len(all_rows),
                   filtersApplied |-> RowsFiltersApplied(a)]
             ELSE IF return_type = "summary"
             THEN LET by_category == RowsByCategory(details, filtered)
                      grand_budgeted == TotalOf(by_category, "budgetedTotal")
                      grand_consumed == TotalOf(by_category, "consumedTotal")
                  IN  [byCategory |-> by_category,
                       grandBudgeted |-> grand_budgeted, grandConsumed |-> grand_consumed,
                       grandDifference |-> grand_budgeted - grand_consumed,
                       totalRows |-> Len(filtered),
                       filtersApplied |-> RowsFiltersApplied(a)]
             ELSE LET shown == SliceTo(filtered, Some(limit))
                  IN  [rows |-> [k \in 1..Len(shown) |-> RowAt(details, shown[k])],
                       matchedCount |-> Len(filtered),
                       returnedCount |-> Min(Len(filtered), limit),
                       filtersApplied |-> RowsFiltersApplied(a)]

DataArgs(jobId) == [jobId |-> jobId]

SummaryArgs(includeSubcategories) == [includeSubcategories |-> includeSubcategories]

\* one money category of get_comparison_summary
AmountSummary(s, tieUp) ==
    LET budgeted == ensure_float(s.budgetedAmount)
        consumed == ensure_float(s.consumedAmount)
    IN  [budgetedAmount |-> budgeted, consumedAmount |-> consumed,
         variance |-> consumed - budgeted,
         percentageUsed |-> PercentTenths(consumed, budgeted, tieUp),
         isOverBudget |-> consumed > budgeted]

LabourSubcategories(labour) ==
    [projectPlanning |-> [budgeted |-> ensure_float(labour.PPbudgetedHours),
                          actual |-> ensure_float(labour.PPactualHours)],
     estimating |-> [budgeted |-> ensure_float(labour.EPbudgetedHours),
                     actual |-> ensure_float(labour.EPactualHours)],
     painting |-> [budgeted |-> ensure_float(labour.PbudgetedHours),
                   actual |-> ensure_float(labour.PactualHours)],
     carpentry |-> [budgeted |-> ensure_float(labour.CbudgetedHours),
                    actual |-> ensure_float(labour.CactualHours)]]

\* execute_get_comparison_summary on what the fetch returned; up names the
\* percentages that, half-way between two tenths, are rounded up
execute_get_comparison_summary(api_data, a, up) ==
    IF NoApiData(api_data) THEN FetchError(CurrentJob)
    ELSE LET summary == Val(api_data).summary
             labour_budgeted == ensure_float(summary.labour.budgetedHours)
             labour_actual == ensure_float(summary.labour.actualHours)
             labour_result ==
                 [budgetedHours |-> labour_budgeted, actualHours |-> labour_actual,
                  variance |-> labour_actual - labour_budgeted,
                  percentageUsed |-> PercentTenths(labour_actual, labour_budgeted,
                                                   "labour" \in up),
                  isOverBudget |-> labour_actual > labour_budgeted]
             material == AmountSummary(summary.material, "material" \in up)
             subcontractor == AmountSummary(summary.subcontractor, "subcontractor" \in up)
             other == AmountSummary(summary.other, "other" \in up)
             grand_budgeted == material.budgetedAmount + subcontractor.budgetedAmount
                               + other.budgetedAmount
             grand_consumed == material.consumedAmount + subcontractor.consumedAmount
                               + other.consumedAmount
         IN  [labour |-> IF a.includeSubcategories = Some(TRUE)
                         THEN [budgetedHours |-> labour_result.budgetedHours,
                               actualHours |-> labour_result.actualHours,
                               variance |-> labour_result.variance,
                               percentageUsed |-> labour_result.percentageUsed,
                               isOverBudget |-> labour_result.isOverBudget,
                               subcategories |-> LabourSubcategories(summary.labour)]
                         ELSE labour_result,
              material |-> material, subcontractor |-> subcontractor, other |-> other,
              grandTotals |-> [budgetedAmount |-> grand_budgeted,
                               consumedAmount |-> grand_consumed,
                               variance |-> grand_consumed - grand_budgeted,
                               percentageUsed |-> PercentTenths(grand_consumed, grand_budgeted,
                                                                "grand" \in up)],
              labourHours |-> [budgeted |-> labour_budgeted, actual |-> labour_actual],
              jobId |-> CurrentJob]

\* the percentages of the summary that are half-way between two tenths
SummaryTiePoints(data) ==
    LET s == data.summary
        tie(c, b) == b > 0 /\ 2 * ((c * 1000) % b) = b
        amounts(x) == <<ensure_float(x.consumedAmount), ensure_float(x.budgetedAmount)>>
        grand_c == amounts(s.material)[1] + amounts(s.subcontractor)[1] + amounts(s.other)[1]
        grand_b == amounts(s.material)[2] + amounts(s.subcontractor)[2] + amounts(s.other)[2]
    IN  {n \in {"labour"} : tie(ensure_float(s.labour.actualHours),
                                 ensure_float(s.labour.budgetedHours))}
        \cup {n \in {"material", "subcontractor", "other"} :
                 tie(amounts(s[n])[1], amounts(s[n])[2])}
        \cup {n \in {"grand"} : tie(grand_c, grand_b)}

(***************************************************************************)
(* Data sets and calls for the comparison tools                            *)
(***************************************************************************)
\* the longest list of labour rows in the comparison data sets
MaxRows == 2

\* rows: a quarter consumed; no budget but consumption, an allowance; a third
\* consumed, from a change order; amounts sent as text, with its own tag
\* list; progress half-way between two tenths; a negative budget
RowPool ==
    << RawRow("503S Kitchen", Num(1000), Num(250), None, FALSE, None),
       RawRow("Plumbing", Num(0), Num(500), Some("Allowance"), FALSE, None),
       RawRow("Paint", Num(300), Num(100), None, TRUE, None),
       RawRow("Misc", Text("n/a"), Text("40"), None, FALSE, Some(<<"ALW">>)),
       RawRow("Kitchen tile", Num(2000), Num(247), None, FALSE, Some(<<>>)),
       RawRow("", Num(-100), NoValue, Some("allowance"), TRUE, None) >>

\* the runs of up to n consecutive rows of the pool
Windows(n) ==
    {SubSeq(RowPool, p[1], p[1] + p[2] - 1) :
        p \in {q \in (1..Len(RowPool)) \X (0..n) : q[1] + q[2] - 1 <= Len(RowPool)}}

RawSummary ==
    [labour |-> [budgetedHours |-> Num(80), actualHours |-> Num(90), percentageUsed |-> Num(112),
                 PPbudgetedHours |-> Num(10), PPactualHours |-> NoValue,
                 EPbudgetedHours |-> NoValue, EPactualHours |-> NoValue,
                 PbudgetedHours |-> Num(40), PactualHours |-> Text("50"),
                 CbudgetedHours |-> Num(30), CactualHours |-> Num(40)],
     material |-> [budgetedAmount |-> Num(3000), consumedAmount |-> Num(1000),
                   percentageUsed |-> Num(33)],
     subcontractor |-> [budgetedAmount |-> Num(0), consumedAmount |-> Num(500),
                        percentageUsed |-> NoValue],
     other |-> [budgetedAmount |-> Text("n/a"), consumedAmount |-> NoValue,
                percentageUsed |-> NoValue]]

\* what the service holds: labour rows from the pool, and in the other
\* categories rows that equal labour rows or differ from them
ComparisonData ==
    { [summary |-> RawSummary,
       details |-> [labour |-> l, material |-> m, subcontractor |-> <<RowPool[2]>>,
                    other |-> o]] :
        l \in Windows(MaxRows),
        m \in {<<>>, <<RowPool[1]>>, <<RowPool[3], RowPool[4]>>},
        o \in {<<>>, <<RowPool[6]>>} }

RowsArgSet ==
    { RowsArgs(cat, f[1], f[2], f[3], rt, None) :
        cat \in {None, Some("labour"), Some("Material"), Some("allowance"), Some("other"),
                 Some("equipment")},
        f \in {<<None, None, None>>, <<Some("alw"), None, None>>,
               <<None, Some("kitchen"), None>>, <<None, None, Some(TRUE)>>},
        rt \in {None, Some("count"), Some("summary")} }
    \cup { RowsArgs(cat, None, None, None, None, Some(1)) :
             cat \in {None, Some("labour"), Some("equipment")} }

InitComparison ==
    /\ schedule = <<>> /\ op = "none" /\ args = <<>> /\ result = <<>>
    /\ pc = "idle" /\ visited = {} /\ stack = <<>> /\ emitted = <<>>
    /\ remote \in {Some(d) : d \in ComparisonData} /\ attempts = <<>>

\* execute_get_comparison_data: one request, then the parse
GetComparisonData ==
    /\ pc = "idle"
    /\ \E a \in {DataArgs(None), DataArgs(Some("job_2"))}, outcome \in FetchOutcomes,
          up \in SUBSET RowTiePoints(Val(remote)) :
          /\ op' = "get_comparison_data"
          /\ args' = a
          /\ attempts' = <<outcome>>
          /\ result' = execute_get_comparison_data(
                           fetch_comparison_from_api(outcome, Val(remote)), a, up)
    /\ pc' = "returned"
    /\ UNCHANGED <<schedule, remote, visited, stack, emitted>>

\* execute_query_comparison_rows: execute_get_comparison_data with no
\* arguments, then the selection
QueryComparisonRows ==
    /\ pc = "idle"
    /\ \E a \in RowsArgSet, outcome \in FetchOutcomes,
          up \in SUBSET RowTiePoints(Val(remote)) :
          /\ op' = "query_comparison_rows"
          /\ args' = a
          /\ attempts' = <<outcome>>
          /\ result' = execute_query_comparison_rows(
                           execute_get_comparison_data(
                               fetch_comparison_from_api(outcome, Val(remote)),
                               DataArgs(None), up), a)
    /\ pc' = "returned"
    /\ UNCHANGED <<schedule, remote, visited, stack, emitted>>

\* execute_get_comparison_summary: one request, then the summary
GetComparisonSummary ==
    /\ pc = "idle"
    /\ \E a \in {SummaryArgs(None), SummaryArgs(Some(TRUE))}, outcome \in FetchOutcomes,
          up \in SUBSET SummaryTiePoints(Val(remote)) :
          /\ op' = "get_comparison_summary"
          /\ args' = a
          /\ attempts' = <<outcome>>
          /\ result' = execute_get_comparison_summary(
                           fetch_comparison_from_api(outcome, Val(remote)), a, up)
    /\ pc' = "returned"
    /\ UNCHANGED <<schedule, remote, visited, stack, emitted>>

NextComparison == GetComparisonData \/ QueryComparisonRows \/ GetComparisonSummary \/ NextCall

SpecComparison == InitComparison /\ [][NextComparison]_vars

(***************************************************************************)
(* C23.  For every normalized comparison row, isOverBudget holds iff       *)
(* consumedAmount > budgetedAmount, and progress is 0 whenever             *)
(* budgetedAmount <= 0 and consumed/budgeted x 100 otherwise (to the one   *)
(* decimal the row carries); a row with budgeted 0 and consumed 500 has    *)
(* progress 0 and isOverBudget true.                                       *)
(***************************************************************************)
DataReturned == Returned("get_comparison_data") /\ "details" \in DOMAIN result

\* progress (in tenths of a percent) is consumed/budgeted x 100 to the
\* nearest tenth, and 0 without a positive budget
ProgressIsRatio(progress, consumed, budgeted) ==
    IF budgeted <= 0 THEN progress = 0
    ELSE LET d == progress * budgeted - consumed * 1000
         IN  2 * d <= budgeted /\ -2 * d <= budgeted

RowIsSound(row) ==
    /\ row.isOverBudget <=> (row.consumedAmount > row.budgetedAmount)
    /\ ProgressIsRatio(row.progress, row.consumedAmount, row.budgetedAmount)

\* C23: every row of the details, and its summary form, is sound
C23_ProgressAndOverBudget ==
    DataReturned =>
        \A p \in RowPositions(result.details) :
            /\ RowIsSound(RowAt(result.details, p))
            /\ \A tieUp \in BOOLEAN :
                  RowIsSound(format_comparison_row_summary(RowAt(result.details, p), tieUp))

\* the row with no budget and 500 consumed, next to a row whose budget is
\* negative and a row whose progress is rounded
C23_Witness ==
    /\ DataReturned
    /\ Len(result.details.labour) = 2
    /\ result.details.labour[1].budgetedAmount = 0
    /\ result.details.labour[1].consumedAmount = 500
    /\ result.details.labour[1].progress = 0 /\ result.details.labour[1].isOverBudget
    /\ result.details.labour[2].progress = 333
    /\ Len(result.details.other) = 1 /\ result.details.other[1].budgetedAmount = -100
    /\ result.details.other[1].progress = 0 /\ result.details.other[1].isOverBudget

(***************************************************************************)
(* C24.  query_comparison_rows called with a category that is none of      *)
(* labour, material, subcontractor, other, allowance, all degrades to a    *)
(* zero/empty result: no rows (count 0, matchedCount 0) and no error.      *)
(***************************************************************************)
KnownCategories == {"labour", "material", "subcontractor", "other", "allowance", "all"}

\* a query_comparison_rows call whose request succeeded
RowsReturned == Returned("query_comparison_rows") /\ attempts = <<"ok">>

UnknownCategory(a) == a.category # None /\ StrLower(Val(a.category)) \notin KnownCategories

\* C24 as stated: an unknown category gives no rows and no error
C24_UnknownCategoryEmpty ==
    (RowsReturned /\ UnknownCategory(args)) =>
        /\ "error" \notin DOMAIN result
        /\ "count" \in DOMAIN result => result.count = 0
        /\ "rows" \in DOMAIN result => result.rows = <<>> /\ result.matchedCount = 0
        /\ "totalRows" \in DOMAIN result => result.totalRows = 0

\* what the same call returns for the category other
ResultsForOther ==
    {[execute_query_comparison_rows(
          execute_get_comparison_data(Some(Val(remote)), DataArgs(None), up),
          [args EXCEPT !.category = Some("other")])
        EXCEPT !.filtersApplied = RowsFiltersApplied(args)] :
        up \in SUBSET RowTiePoints(Val(remote))}

\* C24 amended: an unknown category is answered as the category other, with
\* no error
C24_UnknownCategoryIsOther ==
    (RowsReturned /\ UnknownCategory(args)) =>
        /\ "error" \notin DOMAIN result
        /\ result \in ResultsForOther
        /\ (args.tag = None /\ args.costCodeSearch = None /\ args.overBudgetOnly = None) =>
              /\ "count" \in DOMAIN result => result.count = Len(Val(remote).details.other)
              /\ "matchedCount" \in DOMAIN result
                    => result.matchedCount = Len(Val(remote).details.other)

\* category equipment on data whose other list has one row: that row is
\* returned
C24_Witness ==
    /\ RowsReturned /\ args = RowsArgs(Some("equipment"), None, None, None, None, None)
    /\ Len(Val(remote).details.other) = 1 /\ Len(Val(remote).details.labour) = 2
    /\ result.matchedCount = 1 /\ Len(result.rows) = 1
    /\ result.rows[1].budgetedAmount = -100

(***************************************************************************)
(* C25.  Each invocation of query_comparison_rows, get_comparison_data or  *)
(* get_comparison_summary makes at most one outbound request; when it      *)
(* times out, errors or answers with a status other than 200 there is no   *)
(* retry, nothing is raised, and the result has an error and a suggestion  *)
(* and no rows or summary data.                                            *)
(***************************************************************************)
ComparisonOps == {"query_comparison_rows", "get_comparison_data", "get_comparison_summary"}

FailedOutcomes == {"timeout", "client_error", "status_500"}

\* C25: one request at most, and a failed request ends in the error result
C25_OneAttemptThenError ==
    /\ Len(attempts) <= 1
    /\ (pc = "returned" /\ op \in ComparisonOps
           /\ Len(attempts) = 1 /\ attempts[1] \in FailedOutcomes) =>
                /\ DOMAIN result = {"error", "jobId", "suggestion"}
                /\ result.error # "" /\ result.suggestion # ""

\* each of the three operations after a request that timed out
C25_Witness ==
    /\ pc = "returned" /\ attempts = <<"timeout">>
    /\ op = "query_comparison_rows" /\ args.returnType = Some("summary")
    /\ Len(Val(remote).details.labour) = 2
    /\ "error" \in DOMAIN result /\ "byCategory" \notin DOMAIN result

(***************************************************************************)
(* C30.  In query_comparison_rows with returnType=summary every filtered   *)
(* row is counted under the category whose detail list it came from:       *)
(* byCategory[c].count is the number of filtered rows that originate from  *)
(* category c, also when rows of two categories have identical field       *)
(* values, and the counts sum to totalRows.                                *)
(***************************************************************************)
SummaryReturned == RowsReturned /\ args.returnType = Some("summary")

\* the normalized details of the service's data (no filter reads progress)
ParsedDetails ==
    [c \in {"labour", "material", "subcontractor", "other"} |->
        parse_comparison_rows(Val(remote).details[c], c, {})]

\* the filtered rows of the call, by their place of origin
FilteredOrigins ==
    FilteredRows(ParsedDetails,
                 SelectedRows(ParsedDetails,
                              IF args.category = None THEN "all"
                              ELSE StrLower(Val(args.category))),
                 args)

CountUnder(c) == IF c \in DOMAIN result.byCategory THEN result.byCategory[c].count ELSE 0

\* C30: each category's count is the number of filtered rows that came from it
C30_CountedByOrigin ==
    SummaryReturned =>
        /\ \A c \in {"labour", "material", "subcontractor", "other"} :
              CountUnder(c) = Len(SelectSeq(FilteredOrigins, LAMBDA p : p[1] = c))
        /\ CountUnder("labour") + CountUnder("material") + CountUnder("subcontractor")
           + CountUnder("other") = result.totalRows

(***************************************************************************)
(* The five schedule and payment queries on one job: what a call leaves of *)
(* the job data it was given                                               *)
(***************************************************************************)
\* a main task, a material subtask of it with a predecessor and two stages
\* stored out of date order, and a subcontractor task with one undated stage
QueryProfiles ==
    LET b == BlankTask(0)
    IN  { [b EXCEPT !.task = "Kitchen Remodel", !.isMainTask = TRUE, !.hours = 8,
                    !.startDate = Some("2024-05-20"),
                    !.subtaskIds = Some(<<"task_1">>), !.subtaskIndices = Some(<<1>>)],
          [b EXCEPT !.task = "Cabinets", !.taskType = "material",
                    !.mainTaskId = Some("task_0"), !.mainTaskIndex = Some(0),
                    !.startDate = Some("2024-05-01"),
                    !.dependencies = <<Dep(Some("task_0"), "0", "FS", 0)>>,
                    !.totalPaymentAmount = 420000,
                    !.paymentStages = <<Stage("Final", 75, Some("2024-06-01")),
                                        Stage("Deposit", 25, Some("2024-05-01"))>>],
          [b EXCEPT !.task = "Paint", !.taskType = "subcontractor",
                    !.dependencies = <<Dep(None, "1", "SS", 2)>>,
                    !.totalPaymentAmount = 10000,
                    !.paymentStages = <<Stage("All", 100, None)>>] }

InitQueries == schedule \in SchedulesOver(QueryProfiles, MaxTasks) /\ Idle

NextQueries ==
    \/ QuerySchedule \/ LookupDetails \/ QueryTaskHierarchy
    \/ CallQueryDependencies \/ WalkNext \/ QueryPaymentSchedule \/ NextCall

SpecQueries == InitQueries /\ [][NextQueries]_vars

\* the result of the handler that has just returned, computed from job data d
ResultOn(d, o, a, r) ==
    CASE o = "query_schedule" -> r = execute_query_schedule(d, a)
      [] o = "get_task_details" -> r = execute_get_task_details(d, a)
      [] o = "query_task_hierarchy" -> r = execute_query_task_hierarchy(d, a)
      [] o = "query_payment_schedule" ->
            \E up \in SUBSET TiePoints(d) : r = PaymentResult(CollectPayments(d, a, up), a)
      [] OTHER -> TRUE

\* C26: no query operation (query_schedule, get_task_details,
\* query_task_hierarchy, query_dependencies, query_payment_schedule) modifies
\* the job data it is given: every step of a call, the steps of the
\* dependency walk included, leaves the schedule as it was, and the result a
\* call returns is the one computed from the schedule as it was before the
\* call.
C26_InputUntouched ==
    [][ /\ schedule' = schedule
        /\ (pc = "idle" /\ pc' = "returned") => ResultOn(schedule, op', args', result') ]_vars

\* a payment list has been returned for a task whose stages are stored out of
\* date order, and the stages are still stored in that order
C26_Witness ==
    /\ Returned("query_payment_schedule") /\ "payments" \in DOMAIN result
    /\ Len(result.payments) >= 2
    /\ \E i \in 1..Len(schedule) :
          /\ Len(schedule[i].paymentStages) = 2
          /\ SortByDate(schedule[i].paymentStages) # schedule[i].paymentStages

(***************************************************************************)
(* Claims about the visited set of a chained walk                          *)
(***************************************************************************)
\* the ids of the tasks the walk has expanded so far
ExpandedIds == {schedule[emitted[k].task].id : k \in {l \in 1..Len(emitted) : emitted[l].chain = "expanded"}}

\* the step has appended an entry to the list of some activation
EmitsEntry == Len(emitted') = Len(emitted) + 1

\* C27: during one top-level walk with includeChain=true each task id is
\* expanded at most once.  The visited set is the target's id and the ids
\* expanded so far; an entry for a task not yet visited is expanded (a nested
\* activation starts and the id joins the set), an entry for a task already
\* visited gets the empty nested list with no activation and no error; the
\* set never shrinks during the walk, and a top-level call starts from the
\* target's id alone.
C27_VisitedOncePerWalk ==
    [][ /\ (pc = "walking" /\ IncludeChain(args)) =>
              /\ visited = {schedule[result.target].id} \cup ExpandedIds
              /\ visited \subseteq visited'
              /\ EmitsEntry =>
                    LET e == emitted'[Len(emitted')]
                        id == schedule[e.task].id
                    IN  /\ e.chain = (IF id \in visited THEN "cut" ELSE "expanded")
                        /\ e.chain = "expanded" =>
                              /\ visited' = visited \cup {id}
                              /\ Len(stack') = Len(stack) + 1
                              /\ stack'[Len(stack')].task = e.task
                        /\ e.chain = "cut" =>
                              /\ visited' = visited
                              /\ Len(stack') = Len(stack)
                        /\ \A k \in 1..Len(emitted) :
                              emitted[k].chain = "expanded" => emitted[k].task # e.task \/ e.chain = "cut"
              /\ pc' = "returned" => "error" \notin DOMAIN result'
        /\ (pc = "idle" /\ pc' = "walking") =>
              /\ visited = {}
              /\ visited' = {schedule[result'.target].id} ]_vars

\* a chained successor walk has returned in which two tasks were expanded and
\* the target, reached again through a cycle, was cut short
C27_Witness ==
    /\ WalkReturned /\ IncludeChain(args) /\ DirectionOf(args) = "successors"
    /\ Cardinality(ExpandedIds) = 2
    /\ \E k \in 1..Len(emitted) : emitted[k].chain = "cut" /\ emitted[k].task = TargetPos
    /\ Cardinality(visited) = 3

(***************************************************************************)
(* build_searchable_context as a function of a task and its schedule:      *)
(* schedules whose rows have been reordered, so that a row's index is its  *)
(* new place while ids, mainTaskId and mainTaskIndex are as stored         *)
(***************************************************************************)
\* two main tasks and a subtask whose mainTaskId names the first of them, a
\* task that is not there or nothing, and whose mainTaskIndex is absent or
\* the place one of the main tasks had or has
ContextRows ==
    LET b == BlankTask(0)
    IN  { <<[b EXCEPT !.id = "task_0", !.task = "Kitchen Remodel", !.isMainTask = TRUE],
            [b EXCEPT !.id = "task_1", !.task = "Garage", !.isMainTask = TRUE],
            [b EXCEPT !.id = "task_2", !.task = "Tile", !.mainTaskId = mid, !.mainTaskIndex = mix]>> :
          mid \in {None, Some("task_0"), Some("task_7")},
          mix \in {None, Some(0), Some(1), Some(2)} }

\* the rows in every order, each with the index of its place
ContextSchedules ==
    { [k \in 1..3 |-> [rows[f[k]] EXCEPT !.index = k - 1]] :
        rows \in ContextRows,
        f \in {g \in [1..3 -> 1..3] : \A i, j \in 1..3 : g[i] = g[j] => i = j} }

InitContext == schedule \in ContextSchedules /\ Idle

\* build_searchable_context(task, schedule, include_parent=True) for a task of
\* the schedule, as the search filters call it
BuildSearchableContext ==
    /\ pc = "idle"
    /\ \E i \in 1..Len(schedule) :
          /\ op' = "build_searchable_context"
          /\ args' = [task |-> i]
          /\ result' = [context |-> build_searchable_context(schedule[i], schedule, TRUE)]
    /\ pc' = "returned"
    /\ UNCHANGED <<schedule, remote, attempts, visited, stack, emitted>>

NextContext == BuildSearchableContext \/ NextCall

SpecContext == InitContext /\ [][NextContext]_vars

\* the places of the tasks whose id is the task's mainTaskId
ParentsById(task) == {p \in 1..Len(schedule) : Some(schedule[p].id) = task.mainTaskId}

\* the context of a task whose parent is the named task at place p
ContextUnder(task, p) ==
    JoinSpace(StrParts(task, <<"task", "remarks", "id", "taskType">>)
              \o <<"under " \o schedule[p].task, schedule[p].task>>)

\* C28: the parent of a subtask's search context is resolved by id in
\* preference to index: when a task's id equals the subtask's mainTaskId, the
\* name of that task is the one appended, even when another task's index
\* equals the subtask's mainTaskIndex and wherever the two tasks sit in the
\* schedule.
C28_ParentByIdFirst ==
    Returned("build_searchable_context") =>
        LET task == schedule[args.task]
        IN  \A p \in ParentsById(task) :
               schedule[p].task # "" => result.context = ContextUnder(task, p)

(***************************************************************************)
(* The two directions of query_dependencies on rows as they are stored:    *)
(* a row may lack its index (parse_schedule_row then gives it 0) and may   *)
(* carry an id of its own making instead of task_<index>                   *)
(***************************************************************************)
\* rows without dependencies (as stored, without index, with a numeral for
\* id) and rows that name a predecessor by index only or by id
DualProfiles ==
    { [id |-> "", indexed |-> TRUE, dependencies |-> <<>>],
      [id |-> "", indexed |-> FALSE, dependencies |-> <<>>],
      [id |-> "numeral", indexed |-> TRUE, dependencies |-> <<>>],
      [id |-> "", indexed |-> TRUE, dependencies |-> <<Dep(None, "0", "FS", 0)>>],
      [id |-> "", indexed |-> TRUE, dependencies |-> <<Dep(None, "1", "FS", 0)>>],
      [id |-> "", indexed |-> TRUE, dependencies |-> <<Dep(Some("task_0"), "0", "SS", 1)>>] }

\* the k-th row of the document after parse_schedule_row
DualRow(profile, k) ==
    [BlankTask(IF profile.indexed THEN k - 1 ELSE 0) EXCEPT
        !.id = IF profile.id = "numeral" THEN Str(k) ELSE IdOf(k),
        !.task = "Demo",
        !.dependencies = profile.dependencies]

DualSchedules ==
    UNION {{[k \in 1..n |-> DualRow(f[k], k)] : f \in [1..n -> DualProfiles]} : n \in 0..MaxDepTasks}

InitDual == schedule \in DualSchedules /\ Idle

NextDual == CallQueryDependencies \/ WalkNext \/ NextCall

SpecDual == InitDual /\ [][NextDual]_vars

\* the tasks get_predecessors lists for the task at position t when it does
\* not follow the chain
PredecessorsOf(t) ==
    {ResolvePredecessor(schedule, schedule[t].dependencies[k]) :
        k \in 1..Len(schedule[t].dependencies)} \ {0}

\* the tasks get_successors lists for the task at position p when it does
\* not follow the chain
SuccessorsOf(p) ==
    {t \in 1..Len(schedule) : NamingDep(schedule[t], schedule[p].id, Str(schedule[p].index)) # 0}

\* the tasks of the list the call has returned
ListedTasks == {emitted[k].task : k \in 1..Len(emitted)}

\* what the call returned is the list of its direction, and a task is in it
\* exactly when the target is in that task's list of the other direction
DualAtTarget ==
    /\ DirectionOf(args) = "predecessors" =>
          /\ ListedTasks = PredecessorsOf(TargetPos)
          /\ \A p \in 1..Len(schedule) : p \in ListedTasks <=> TargetPos \in SuccessorsOf(p)
    /\ DirectionOf(args) = "successors" =>
          /\ ListedTasks = SuccessorsOf(TargetPos)
          /\ \A t \in 1..Len(schedule) : t \in ListedTasks <=> TargetPos \in PredecessorsOf(t)

\* ids and indices each tell the tasks apart, and no task's id is the numeral
\* of another's index
WellIdentified ==
    \A p, q \in 1..Len(schedule) :
        p # q => /\ schedule[p].id # schedule[q].id
                 /\ schedule[p].index # schedule[q].index
                 /\ schedule[p].id # Str(schedule[q].index)

\* C29 as stated: with includeChain=false the two directions are dual: P is
\* among the predecessors returned for T exactly when T is among the
\* successors returned for P, for any two tasks P and T of a schedule.
C29_DirectionsAreDual == (WalkReturned /\ ~IncludeChain(args)) => DualAtTarget

\* C29, amended: the two directions are dual with includeChain=false in a
\* schedule whose tasks have distinct ids and distinct indices and in which
\* no task's id is the numeral of another task's index.
C29_DualWhenWellIdentified ==
    (WalkReturned /\ ~IncludeChain(args) /\ WellIdentified) => DualAtTarget

\* the successors of task_0 have been returned in a well-identified schedule,
\* one of them naming it by id and one by index only
C29_Witness ==
    /\ WalkReturned /\ ~IncludeChain(args) /\ DirectionOf(args) = "successors"
    /\ WellIdentified
    /\ Len(schedule) = 3 /\ TargetPos = 1
    /\ Cardinality(ListedTasks) = 2
    /\ \E t \in ListedTasks : \E k \in 1..Len(schedule[t].dependencies) :
          schedule[t].dependencies[k].predecessorId = None
    /\ \E t \in ListedTasks : \E k \in 1..Len(schedule[t].dependencies) :
          schedule[t].dependencies[k].predecessorId = Some("task_0")

====
